---- MODULE Spec2Model ----
(***************************************************************************)
(* Yatay: scanner, recursive-descent parser, tree-walking interpreter,    *)
(* environment and the command line driver that pipelines them.           *)
(*                                                                         *)
(* Text is modelled as a sequence of one-character strings; indices into  *)
(* the source are the 0-based indices of the code.  The accented letters  *)
(* of the Spanish messages are written without accent.                    *)
(***************************************************************************)
EXTENDS Integers, Sequences, FiniteSets, TLC

VARIABLES
    commandLineArguments, \* YatayCli.commandLineArguments: the arguments, a file path being the text of the file
    phase,              \* position of the driver: "scan", "parse", "parsed", "interpret", "interpreted", "exited"
    sourceCode,         \* YatayScanner.sourceCode
    tokenStart,         \* YatayScanner.tokenStart
    currentIndex,       \* YatayScanner.currentIndex
    currentLine,        \* YatayScanner.currentLine
    tokens,             \* YatayScanner.tokens, then YatayParser.tokens
    currentTokenIndex,  \* YatayParser.currentTokenIndex
    statements,         \* the list built by YatayParser.parse
    declarations,       \* log of the calls of parseDeclaration made by parse
    pending,            \* statements of the list given to interpret the loop has not reached
    statement,          \* the loop variable of interpret: the statement reached last
    outcome,            \* how its execution ended: the value computed and the line logged, or the error thrown
    executed,           \* number of statements handed to executeStatement
    bindings,           \* YatayEnvironment.bindings
    calls,              \* log of the calls of get, set and define made on the environment by its user
    returnedCalls,      \* number of calls of interpret on this interpreter that have returned
    hadError,           \* YatayCli.hadError
    hadRuntimeError,    \* YatayCli.hadRuntimeError
    stderr,             \* lines written with console.error
    traceLines,         \* number of lines written with console.log by the interpreter
    exitStatus          \* status the process ended with

vars == <<commandLineArguments, calls, returnedCalls, phase, sourceCode, tokenStart,
          currentIndex, currentLine, tokens,
          currentTokenIndex, statements, declarations, pending, statement,
          outcome, executed, bindings, hadError, hadRuntimeError, stderr,
          traceLines, exitStatus>>

scannerVars == <<sourceCode, tokenStart, currentIndex, currentLine>>
parserVars == <<currentTokenIndex, statements, declarations>>
interpreterVars ==
    <<pending, statement, outcome, executed, bindings, traceLines, calls, returnedCalls>>

(***************************************************************************)
(* Bounds of the explored inputs.                                          *)
(***************************************************************************)
MaxLen == 4
MaxTokens == 4
MaxStatements == 2

(***************************************************************************)
(* Values: boolean | number | string | null.                               *)
(* A number is an IEEE 754 double: NaN, an infinity, or a finite value     *)
(* held as a sign and a magnitude numerator / denominator in lowest terms  *)
(* (the sign is kept on zero).  Within the bounds explored every finite    *)
(* value is exactly representable, so no rounding takes place.             *)
(***************************************************************************)
Null == [t |-> "null"]
Bool(b) == [t |-> "boolean", b |-> b]
Str(s) == [t |-> "string", s |-> s]
NaN == [t |-> "number", c |-> "nan", neg |-> FALSE, n |-> 0, d |-> 1]
Infinity(neg) == [t |-> "number", c |-> "infinite", neg |-> neg, n |-> 1, d |-> 0]

RECURSIVE Gcd(_, _)
Gcd(a, b) == IF b = 0 THEN a ELSE Gcd(b, a % b)

Num(neg, n, d) ==
    LET g == Gcd(n, d)
    IN  [t |-> "number", c |-> "finite", neg |-> neg, n |-> n \div g, d |-> d \div g]

IsZero(a) == a.c = "finite" /\ a.n = 0
Signed(a) == IF a.neg THEN 0 - a.n ELSE a.n
Abs(i) == IF i < 0 THEN 0 - i ELSE i

Negate(a) == IF a.c = "nan" THEN NaN ELSE [a EXCEPT !.neg = ~a.neg]

Add(a, b) ==
    IF a.c = "nan" \/ b.c = "nan" THEN NaN
    ELSE IF a.c = "infinite"
         THEN IF b.c = "infinite" /\ b.neg # a.neg THEN NaN ELSE a
    ELSE IF b.c = "infinite" THEN b
    ELSE LET sum == Signed(a) * b.d + Signed(b) * a.d
         IN  IF sum = 0
             THEN Num(IsZero(a) /\ IsZero(b) /\ a.neg /\ b.neg, 0, 1)
             ELSE Num(sum < 0, Abs(sum), a.d * b.d)

Subtract(a, b) == Add(a, Negate(b))

Multiply(a, b) ==
    IF a.c = "nan" \/ b.c = "nan" THEN NaN
    ELSE IF a.c = "infinite" \/ b.c = "infinite"
         THEN IF IsZero(a) \/ IsZero(b) THEN NaN ELSE Infinity(a.neg # b.neg)
    ELSE Num(a.neg # b.neg, a.n * b.n, a.d * b.d)

Divide(a, b) ==
    IF a.c = "nan" \/ b.c = "nan" THEN NaN
    ELSE IF a.c = "infinite"
         THEN IF b.c = "infinite" THEN NaN ELSE Infinity(a.neg # b.neg)
    ELSE IF b.c = "infinite" THEN Num(a.neg # b.neg, 0, 1)
    ELSE IF IsZero(b)
         THEN IF IsZero(a) THEN NaN ELSE Infinity(a.neg # b.neg)
    ELSE Num(a.neg # b.neg, a.n * b.d, a.d * b.n)

\* An operator that would compute the integer quotient.
IntegerQuotient(a, b) ==
    IF a.c # "finite" \/ b.c = "nan" \/ IsZero(b) THEN NaN
    ELSE IF b.c = "infinite" THEN Num(a.neg # b.neg, 0, 1)
    ELSE Num(a.neg # b.neg, (a.n * b.d) \div (b.n * a.d), 1)

Remainder(a, b) ==
    IF a.c # "finite" \/ b.c = "nan" \/ IsZero(b) THEN NaN
    ELSE IF b.c = "infinite" THEN a
    ELSE Num(a.neg, (a.n * b.d) % (b.n * a.d), a.d * b.d)

\* a < b on doubles: false as soon as one is NaN; the zeros are equal.
LessThan(a, b) ==
    IF a.c = "nan" \/ b.c = "nan" THEN FALSE
    ELSE IF a.c = "infinite" THEN a.neg /\ ~(b.c = "infinite" /\ b.neg)
    ELSE IF b.c = "infinite" THEN ~b.neg
    ELSE Signed(a) * b.d < Signed(b) * a.d

\* a === b on doubles.
NumberEquals(a, b) ==
    IF a.c = "nan" \/ b.c = "nan" THEN FALSE
    ELSE IF a.c = "infinite" \/ b.c = "infinite" THEN a.c = b.c /\ a.neg = b.neg
    ELSE Signed(a) * b.d = Signed(b) * a.d

(***************************************************************************)
(* Tokens.                                                                 *)
(***************************************************************************)
Token(kind, lexeme, literal, line) ==
    [kind |-> kind, lexeme |-> lexeme, literal |-> literal, line |-> line]

Digits == {"0", "1", "2", "3", "4", "5", "6", "7", "8", "9"}

Letters ==
    {"a", "b", "c", "d", "e", "f", "g", "h", "i", "j", "k", "l", "m", "n", "o",
     "p", "q", "r", "s", "t", "u", "v", "w", "x", "y", "z",
     "A", "B", "C", "D", "E", "F", "G", "H", "I", "J", "K", "L", "M", "N", "O",
     "P", "Q", "R", "S", "T", "U", "V", "W", "X", "Y", "Z",
     "a'", "e'", "i'", "o'", "u'", "u:", "n~", "A'", "E'", "I'", "O'", "U'", "U:", "N~"}

DigitValue(c) ==
    CASE c = "0" -> 0 [] c = "1" -> 1 [] c = "2" -> 2 [] c = "3" -> 3 [] c = "4" -> 4
      [] c = "5" -> 5 [] c = "6" -> 6 [] c = "7" -> 7 [] c = "8" -> 8 [] c = "9" -> 9

keywordMap ==
    [lexeme \in {<<"b","a","s","e">>, <<"c","l","a","s","e">>,
                 <<"d","e","f","i","n","i","r">>, <<"d","e","v","o","l","v","e","r">>,
                 <<"f","a","l","s","o">>, <<"i","n","s","t","a","n","c","i","a">>,
                 <<"m","i","e","n","t","r","a","s">>, <<"n","o">>, <<"o">>,
                 <<"r","e","p","e","t","i","r">>, <<"s","i">>, <<"s","i","n","o">>,
                 <<"v","e","r","d","a","d","e","r","o">>, <<"y">>} |->
        CASE lexeme = <<"b","a","s","e">> -> "KeywordBase"
          [] lexeme = <<"c","l","a","s","e">> -> "KeywordClase"
          [] lexeme = <<"d","e","f","i","n","i","r">> -> "KeywordDefinir"
          [] lexeme = <<"d","e","v","o","l","v","e","r">> -> "KeywordDevolver"
          [] lexeme = <<"f","a","l","s","o">> -> "KeywordFalso"
          [] lexeme = <<"i","n","s","t","a","n","c","i","a">> -> "KeywordInstancia"
          [] lexeme = <<"m","i","e","n","t","r","a","s">> -> "KeywordMientras"
          [] lexeme = <<"n","o">> -> "KeywordNo"
          [] lexeme = <<"o">> -> "KeywordO"
          [] lexeme = <<"r","e","p","e","t","i","r">> -> "KeywordRepetir"
          [] lexeme = <<"s","i">> -> "KeywordSi"
          [] lexeme = <<"s","i","n","o">> -> "KeywordSino"
          [] lexeme = <<"v","e","r","d","a","d","e","r","o">> -> "KeywordVerdadero"
          [] lexeme = <<"y">> -> "KeywordY"]

(***************************************************************************)
(* Scanner.  The helpers take the value of currentIndex as a parameter and *)
(* return the value they leave in it, with the errors they announce.       *)
(***************************************************************************)
NUL == "NUL"

isAtStart(index) == index <= 0
isAtEnd(index) == index >= Len(sourceCode)
isNextAtEnd(index) == index + 1 >= Len(sourceCode)

charAt(index) == sourceCode[index + 1]
previousCharacter(index) == IF isAtStart(index) THEN NUL ELSE charAt(index - 1)
currentCharacter(index) == IF isAtEnd(index) THEN NUL ELSE charAt(index)
nextCharacter(index) == IF isNextAtEnd(index) THEN NUL ELSE charAt(index + 1)

substring(from, to) == SubSeq(sourceCode, from + 1, to)

isNumberSeparator(character) == character = "_"
isDecimalSeparator(character) == character = ","
isDigit(character) == character \in Digits
isAlphabetic(character) == character \in Letters
isIdentifierSeparator(character) == character = "_"
isIntegerNonStarter(character) == isDigit(character) \/ isNumberSeparator(character)
isAlphanumeric(character) == isDigit(character) \/ isAlphabetic(character)
isIdentifierStarter(character) == isAlphabetic(character) \/ isIdentifierSeparator(character)
isIdentifierNonStarter(character) == isAlphanumeric(character) \/ isIdentifierSeparator(character)

\* A scanner that would never look at the character after the current one.
matchNothing(expected, index) == FALSE

match(expected, index) == ~isAtEnd(index) /\ charAt(index) = expected

UnexpectedCharacterMessage(character) ==
    <<"Se encontro un caracter inesperado: \"", character, "\".">>
UnterminatedStringMessage == <<"No se encontro la comilla de cierre del texto.">>
TrailingSeparatorMessage == <<"Un numero no puede terminar en guion bajo.">>
ConsecutiveSeparatorsMessage ==
    <<"No pueden haber dos guiones bajos consecutivos en un numero.">>
SeparatorBeforeDecimalMessage ==
    <<"No puede haber un guion bajo inmediatamente antes del separador decimal en un numero.">>
SeparatorAfterDecimalMessage ==
    <<"No puede haber un guion bajo inmediatamente despues del separador decimal en un numero.">>
UnrepresentableMessage ==
    <<"La magnitud del numero es demasiado grande para ser representada en memoria.">>

\* What one call of scanToken leaves: currentIndex, currentLine, the tokens
\* it added and the messages it announced (all on the line current then).
Scanned(index, line, added, announced) ==
    [index |-> index, line |-> line, added |-> added, announced |-> announced]

\* A scanner that would cut the lexeme after the first character of the
\* token.
addTokenFromSecondCharacter(kind, literal, start, index, line) ==
    <<Token(kind, substring(start + 1, index), literal, line)>>

addToken(kind, literal, start, index, line) ==
    <<Token(kind, substring(start, index), literal, line)>>

\* A line comment that would swallow the newline that ends it.
RECURSIVE consumeLineCommentAndNewline(_)
consumeLineCommentAndNewline(index) ==
    IF isAtEnd(index) THEN index
    ELSE IF currentCharacter(index) = "\n" THEN index + 1
    ELSE consumeLineCommentAndNewline(index + 1)

\* A line comment that would advance once more at the end of the source.
RECURSIVE consumeLineCommentPastEnd(_)
consumeLineCommentPastEnd(index) ==
    IF isAtEnd(index) THEN index + 1
    ELSE IF currentCharacter(index) = "\n" THEN index
    ELSE consumeLineCommentPastEnd(index + 1)

RECURSIVE consumeLineComment(_)
consumeLineComment(index) ==
    IF currentCharacter(index) # "\n" /\ ~isAtEnd(index)
    THEN consumeLineComment(index + 1)
    ELSE index

RECURSIVE StringEnd(_)
StringEnd(index) ==
    IF currentCharacter(index) # "\"" /\ currentCharacter(index) # "\n" /\ ~isAtEnd(index)
    THEN StringEnd(index + 1)
    ELSE index

\* A scanner that would announce the text cut off and add its token all the
\* same.
finishStringCutOff(start, index, line) ==
    IF currentCharacter(StringEnd(index)) = "\n" \/ isAtEnd(StringEnd(index))
    THEN Scanned(StringEnd(index), line,
                 addToken("String", Str(substring(start + 1, StringEnd(index))), start,
                          StringEnd(index), line),
                 <<UnterminatedStringMessage>>)
    ELSE Scanned(StringEnd(index) + 1, line,
                 addToken("String", Str(substring(start + 1, StringEnd(index))), start,
                          StringEnd(index) + 1, line),
                 <<>>)

finishString(start, index, line) ==
    LET stop == StringEnd(index)
    IN  IF currentCharacter(stop) = "\n" \/ isAtEnd(stop)
        THEN Scanned(stop, line, <<>>, <<UnterminatedStringMessage>>)
        ELSE Scanned(stop + 1, line,
                     addToken("String", Str(substring(start + 1, stop)), start, stop + 1, line),
                     <<>>)

\* consumeInteger: [index, announced]
RECURSIVE consumeInteger(_)
consumeInteger(index) ==
    IF isIntegerNonStarter(currentCharacter(index))
    THEN LET rest == consumeInteger(index + 1)
             here == IF isNumberSeparator(previousCharacter(index))
                        /\ isNumberSeparator(currentCharacter(index))
                     THEN <<ConsecutiveSeparatorsMessage>>
                     ELSE <<>>
         IN  [index |-> rest.index, announced |-> here \o rest.announced]
    ELSE [index |-> index, announced |-> <<>>]

\* A decimal separator that would be checked on its left only.
consumeDecimalSeparatorCheckedBefore(index) ==
    [index |-> index + 1,
     announced |->
        IF isNumberSeparator(previousCharacter(index))
        THEN <<SeparatorBeforeDecimalMessage>> ELSE <<>>]

consumeDecimalSeparator(index) ==
    [index |-> index + 1,
     announced |->
        (IF isNumberSeparator(previousCharacter(index))
         THEN <<SeparatorBeforeDecimalMessage>> ELSE <<>>)
        \o (IF isNumberSeparator(nextCharacter(index))
            THEN <<SeparatorAfterDecimalMessage>> ELSE <<>>)]

\* The lexeme with "," replaced by "." and "_" removed.
RECURSIVE CleanNumber(_)
CleanNumber(lexeme) ==
    IF lexeme = <<>> THEN <<>>
    ELSE IF Head(lexeme) = "_" THEN CleanNumber(Tail(lexeme))
    ELSE IF Head(lexeme) = "," THEN <<".">> \o CleanNumber(Tail(lexeme))
    ELSE <<Head(lexeme)>> \o CleanNumber(Tail(lexeme))

RECURSIVE DigitsPrefix(_)
DigitsPrefix(text) ==
    IF text # <<>> /\ Head(text) \in Digits
    THEN <<Head(text)>> \o DigitsPrefix(Tail(text))
    ELSE <<>>

RECURSIVE DigitsValue(_, _)
DigitsValue(digits, acc) ==
    IF digits = <<>> THEN acc
    ELSE DigitsValue(Tail(digits), 10 * acc + DigitValue(Head(digits)))

RECURSIVE Pow10(_)
Pow10(k) == IF k = 0 THEN 1 ELSE 10 * Pow10(k - 1)

\* Number.parseFloat on a text that starts with a digit: the longest prefix
\* of the shape digits [ "." digits ].
parseFloat(text) ==
    LET whole == DigitsPrefix(text)
        after == SubSeq(text, Len(whole) + 1, Len(text))
        fraction == IF after # <<>> /\ Head(after) = "."
                    THEN DigitsPrefix(Tail(after)) ELSE <<>>
    IN  Num(FALSE, DigitsValue(whole \o fraction, 0), Pow10(Len(fraction)))

RECURSIVE StripZeros(_)
StripZeros(digits) ==
    IF digits # <<>> /\ Head(digits) = "0" THEN StripZeros(Tail(digits)) ELSE digits

RECURSIVE DigitsGreater(_, _)
DigitsGreater(a, b) ==
    IF a = <<>> THEN FALSE
    ELSE IF DigitValue(Head(a)) # DigitValue(Head(b))
         THEN DigitValue(Head(a)) > DigitValue(Head(b))
         ELSE DigitsGreater(Tail(a), Tail(b))

\* Number.MAX_SAFE_INTEGER, 9007199254740991, as its decimal digits.
MaxSafeIntegerDigits ==
    <<"9","0","0","7","1","9","9","2","5","4","7","4","0","9","9","1">>

\* number > Number.MAX_SAFE_INTEGER, decided on the decimal digits of the
\* literal (a literal is never negative).
ExceedsMaxSafeInteger(text) ==
    LET whole == StripZeros(DigitsPrefix(text))
        after == SubSeq(text, Len(DigitsPrefix(text)) + 1, Len(text))
        fraction == IF after # <<>> /\ Head(after) = "."
                    THEN DigitsPrefix(Tail(after)) ELSE <<>>
    IN  \/ Len(whole) > Len(MaxSafeIntegerDigits)
        \/ /\ Len(whole) = Len(MaxSafeIntegerDigits)
           /\ \/ DigitsGreater(whole, MaxSafeIntegerDigits)
              \/ whole = MaxSafeIntegerDigits /\ StripZeros(fraction) # <<>>

validateNumberIsRepresentable(text) ==
    IF ExceedsMaxSafeInteger(text) THEN <<UnrepresentableMessage>> ELSE <<>>

\* Number.parseFloat on a literal beyond Number.MAX_SAFE_INTEGER: a double
\* that need not be the number written; its digits are not followed.
BeyondSafeIntegers == [t |-> "number", c |-> "inexact", neg |-> FALSE, n |-> 0, d |-> 1]

\* A scanner that would add the Number token only when it announced nothing
\* about the lexeme.
finishNumberDiscardingInvalid(start, index, line) ==
    LET whole == consumeInteger(index)
        hasFraction == isDecimalSeparator(currentCharacter(whole.index))
                       /\ isIntegerNonStarter(nextCharacter(whole.index))
        separator == consumeDecimalSeparator(whole.index)
        fraction == consumeInteger(separator.index)
        stop == IF hasFraction THEN fraction.index ELSE whole.index
        inner == IF hasFraction
                 THEN whole.announced \o separator.announced \o fraction.announced
                 ELSE whole.announced
        trailing == IF isNumberSeparator(previousCharacter(stop))
                    THEN <<TrailingSeparatorMessage>> ELSE <<>>
        text == CleanNumber(substring(start, stop))
        announced == inner \o trailing \o validateNumberIsRepresentable(text)
    IN  Scanned(stop, line,
                IF announced = <<>>
                THEN addToken("Number", parseFloat(text), start, stop, line) ELSE <<>>,
                announced)

finishNumber(start, index, line) ==
    LET whole == consumeInteger(index)
        hasFraction == isDecimalSeparator(currentCharacter(whole.index))
                       /\ isIntegerNonStarter(nextCharacter(whole.index))
        separator == consumeDecimalSeparator(whole.index)
        fraction == consumeInteger(separator.index)
        stop == IF hasFraction THEN fraction.index ELSE whole.index
        inner == IF hasFraction
                 THEN whole.announced \o separator.announced \o fraction.announced
                 ELSE whole.announced
        trailing == IF isNumberSeparator(previousCharacter(stop))
                    THEN <<TrailingSeparatorMessage>> ELSE <<>>
        text == CleanNumber(substring(start, stop))
        value == IF ExceedsMaxSafeInteger(text) THEN BeyondSafeIntegers ELSE parseFloat(text)
    IN  Scanned(stop, line,
                addToken("Number", value, start, stop, line),
                inner \o trailing \o validateNumberIsRepresentable(text))

RECURSIVE IdentifierEnd(_)
IdentifierEnd(index) ==
    IF isIdentifierNonStarter(currentCharacter(index))
    THEN IdentifierEnd(index + 1)
    ELSE index

finishIdentifier(start, index, line) ==
    LET stop == IdentifierEnd(index)
        lexeme == substring(start, stop)
        kind == IF lexeme \in DOMAIN keywordMap THEN keywordMap[lexeme] ELSE "Identifier"
    IN  Scanned(stop, line, addToken(kind, Null, start, stop, line), <<>>)

SingleCharacterKind(character) ==
    CASE character = "(" -> "OpeningParenthesis"
      [] character = ")" -> "ClosingParenthesis"
      [] character = "[" -> "OpeningSquareBracket"
      [] character = "]" -> "ClosingSquareBracket"
      [] character = "{" -> "OpeningCurlyBrace"
      [] character = "}" -> "ClosingCurlyBrace"
      [] character = "." -> "Dot"
      [] character = "," -> "Comma"
      [] character = ";" -> "Semicolon"
      [] character = "#" -> "Hash"
      [] character = "+" -> "Plus"
      [] character = "-" -> "Minus"
      [] character = "*" -> "Asterisk"

\* scanToken, called with tokenStart = currentIndex = start.
scanToken(start, currentLineNow) ==
    LET character == charAt(start)
        index == start + 1
        line == currentLineNow
        one(kind) == Scanned(index, line, addToken(kind, Null, start, index, line), <<>>)
        two(kind) == Scanned(index + 1, line, addToken(kind, Null, start, index + 1, line), <<>>)
    IN  CASE character \in {"(", ")", "[", "]", "{", "}", ".", ",", ";", "#", "+", "-", "*"} ->
                one(SingleCharacterKind(character))
          [] character = ":" ->
                IF match(":", index)
                THEN Scanned(consumeLineComment(index + 1), line, <<>>, <<>>)
                ELSE one("Colon")
          [] character = "/" ->
                IF match("/", index) THEN two("DoubleSlash") ELSE one("Slash")
          [] character = "=" ->
                IF match("<", index) THEN two("LessOrEqual") ELSE one("Equal")
          [] character = ">" ->
                IF match("<", index) THEN two("Unequal")
                ELSE IF match("=", index) THEN two("GreaterOrEqual")
                ELSE one("Greater")
          [] character = "<" ->
                IF match("=", index) THEN two("Assign") ELSE one("Less")
          [] character \in {" ", "\r", "\t"} -> Scanned(index, line, <<>>, <<>>)
          [] character = "\n" -> Scanned(index, line + 1, <<>>, <<>>)
          [] character = "\"" -> finishString(start, index, line)
          [] OTHER ->
                IF isDigit(character) THEN finishNumber(start, index, line)
                ELSE IF isIdentifierStarter(character) THEN finishIdentifier(start, index, line)
                ELSE Scanned(index, line, <<>>, <<UnexpectedCharacterMessage(character)>>)


(***************************************************************************)
(* Driver: the diagnostics of YatayCli.  A line written to the standard   *)
(* error stream is the concatenation of the fields of its record, in the  *)
(* order prefix, line, label, location, separator, message.               *)
(***************************************************************************)
reportError(line, message, location) ==
    IF location # <<>>
    THEN [prefix |-> "[Linea ", line |-> line, label |-> "] Error en ",
          location |-> location, separator |-> ": ", message |-> message]
    ELSE [prefix |-> "[Linea ", line |-> line, label |-> "] Error: ",
          location |-> <<>>, separator |-> "", message |-> message]

announceScanningError(line, message) == reportError(line, message, <<>>)

\* A report that would quote the lexeme of every token, End Of File included.
announceParsingErrorQuoted(token, message) ==
    reportError(token.line, message, <<"\"">> \o token.lexeme \o <<"\"">>)

announceParsingError(token, message) ==
    IF token.kind = "EndOfFile"
    THEN reportError(token.line, message, <<"el final">>)
    ELSE reportError(token.line, message, <<"\"">> \o token.lexeme \o <<"\"">>)

announceRuntimeError(error) ==
    [prefix |-> "[Linea ", line |-> error.token.line, label |-> "] ",
     location |-> <<>>, separator |-> "", message |-> error.message]

RECURSIVE announceAll(_, _)
announceAll(line, messages) ==
    IF messages = <<>> THEN <<>>
    ELSE <<announceScanningError(line, Head(messages))>> \o announceAll(line, Tail(messages))

(***************************************************************************)
(* Expressions and statements.                                             *)
(***************************************************************************)
LiteralExpression(value) == [e |-> "Literal", value |-> value]
GroupingExpression(innerExpression) == [e |-> "Grouping", innerExpression |-> innerExpression]
UnaryExpression(operator, operand) ==
    [e |-> "Unary", operator |-> operator, operand |-> operand]
BinaryExpression(leftOperand, operator, rightOperand) ==
    [e |-> "Binary", leftOperand |-> leftOperand, operator |-> operator,
     rightOperand |-> rightOperand]
VariableAccessExpression(name) == [e |-> "VariableAccess", name |-> name]
NoExpression == [e |-> "null"]

ExpressionStatement(expression) == [s |-> "Expression", expression |-> expression]
VariableDeclarationStatement(name, initializer) ==
    [s |-> "VariableDeclaration", name |-> name, initializer |-> initializer]
NoStatement == [s |-> "null"]

(***************************************************************************)
(* Parser.  The rules take the value of currentTokenIndex as a parameter   *)
(* and return either the node built and the index they leave, or the parse *)
(* error thrown (already announced) and the index at the throw.            *)
(***************************************************************************)
currentToken(index) == tokens[index + 1]
previousToken(index) == tokens[index]
parserIsAtEnd(index) == currentToken(index).kind = "EndOfFile"
currentTokenIsOfKind(kind, index) == currentToken(index).kind = kind
advance(index) == IF ~parserIsAtEnd(index) THEN index + 1 ELSE index
matchAny(tokenKinds, index) == \E kind \in tokenKinds : currentTokenIsOfKind(kind, index)

ExpectedIdentifierMessage == <<"Se esperaba un identificador.">>
ExpectedDotMessage == <<"Se esperaba un \".\" tras la sentencia.">>
ExpectedClosingParenthesisMessage == <<"Se esperaba un \")\" tras la expresion.">>
ExpectedExpressionMessage == <<"Se esperaba una expresion.">>

Parsed(node, index) == [ok |-> TRUE, node |-> node, index |-> index]
createParseError(token, errorMessage, index) ==
    [ok |-> FALSE, token |-> token, message |-> errorMessage, index |-> index]

consume(tokenKind, errorMessage, index) ==
    IF currentTokenIsOfKind(tokenKind, index)
    THEN Parsed(currentToken(index), advance(index))
    ELSE createParseError(currentToken(index), errorMessage, index)

ComparisonOperators == {"Equal", "Unequal", "Less", "LessOrEqual", "Greater", "GreaterOrEqual"}
TermOperators == {"Plus", "Minus"}
FactorOperators == {"Asterisk", "Slash", "DoubleSlash"}
UnaryOperators == {"Minus", "KeywordNo"}

\* A rule that throws ends every rule that called it: the continuation of
\* a rule runs on what the rule it called returned, unless that one threw.
OnReturn(result, Continue(_)) == IF result.ok THEN Continue(result) ELSE result

RECURSIVE parseExpression(_), parseComparison(_), comparisonLoop(_, _), parseTerm(_),
          termLoop(_, _), parseFactor(_), factorLoop(_, _), parseUnary(_), parsePrimary(_)

parsePrimary(index) ==
    IF matchAny({"KeywordVerdadero"}, index)
    THEN Parsed(LiteralExpression(Bool(TRUE)), advance(index))
    ELSE IF matchAny({"KeywordFalso"}, index)
    THEN Parsed(LiteralExpression(Bool(FALSE)), advance(index))
    ELSE IF matchAny({"String", "Number"}, index)
    THEN Parsed(LiteralExpression(currentToken(index).literal), advance(index))
    ELSE IF matchAny({"Identifier"}, index)
    THEN Parsed(VariableAccessExpression(currentToken(index)), advance(index))
    ELSE IF matchAny({"OpeningParenthesis"}, index)
    THEN OnReturn(parseExpression(advance(index)), LAMBDA innerExpression :
            OnReturn(consume("ClosingParenthesis", ExpectedClosingParenthesisMessage,
                             innerExpression.index), LAMBDA closing :
                Parsed(GroupingExpression(innerExpression.node), closing.index)))
    ELSE createParseError(currentToken(index), ExpectedExpressionMessage, index)

parseUnary(index) ==
    IF matchAny(UnaryOperators, index)
    THEN OnReturn(parseUnary(advance(index)), LAMBDA operand :
            Parsed(UnaryExpression(currentToken(index), operand.node), operand.index))
    ELSE parsePrimary(index)

factorLoop(expression, index) ==
    IF matchAny(FactorOperators, index)
    THEN OnReturn(parseUnary(advance(index)), LAMBDA rightOperand :
            factorLoop(BinaryExpression(expression, currentToken(index), rightOperand.node),
                       rightOperand.index))
    ELSE Parsed(expression, index)

parseFactor(index) ==
    OnReturn(parseUnary(index), LAMBDA first : factorLoop(first.node, first.index))

\* A term rule that would parse all that follows the operator as its right
\* operand.
termLoopRightAssociative(expression, index) ==
    IF matchAny(TermOperators, index)
    THEN OnReturn(parseTerm(advance(index)), LAMBDA rightOperand :
            Parsed(BinaryExpression(expression, currentToken(index), rightOperand.node),
                   rightOperand.index))
    ELSE Parsed(expression, index)

termLoop(expression, index) ==
    IF matchAny(TermOperators, index)
    THEN OnReturn(parseFactor(advance(index)), LAMBDA rightOperand :
            termLoop(BinaryExpression(expression, currentToken(index), rightOperand.node),
                     rightOperand.index))
    ELSE Parsed(expression, index)

parseTerm(index) ==
    OnReturn(parseFactor(index), LAMBDA first : termLoop(first.node, first.index))

comparisonLoop(expression, index) ==
    IF matchAny(ComparisonOperators, index)
    THEN OnReturn(parseTerm(advance(index)), LAMBDA rightOperand :
            comparisonLoop(BinaryExpression(expression, currentToken(index),
                                            rightOperand.node),
                           rightOperand.index))
    ELSE Parsed(expression, index)

parseComparison(index) ==
    OnReturn(parseTerm(index), LAMBDA first : comparisonLoop(first.node, first.index))

parseExpression(index) == parseComparison(index)

parseExpressionStatement(index) ==
    OnReturn(parseExpression(index), LAMBDA expression :
        OnReturn(consume("Dot", ExpectedDotMessage, expression.index), LAMBDA dot :
            Parsed(ExpressionStatement(expression.node), dot.index)))

parseStatement(index) == parseExpressionStatement(index)

parseInitializer(index) ==
    IF matchAny({"Assign"}, index)
    THEN parseExpression(advance(index))
    ELSE Parsed(NoExpression, index)

parseVariableDeclaration(index) ==
    OnReturn(consume("Identifier", ExpectedIdentifierMessage, index), LAMBDA name :
        OnReturn(parseInitializer(name.index), LAMBDA initializer :
            OnReturn(consume("Dot", ExpectedDotMessage, initializer.index), LAMBDA dot :
                Parsed(VariableDeclarationStatement(name.node, initializer.node),
                       dot.index))))

SynchronizationKinds ==
    {"KeywordClase", "KeywordDefinir", "KeywordDevolver", "KeywordMientras",
     "KeywordRepetir", "KeywordSi"}

\* A recovery that would stop only after a ".".
RECURSIVE synchronizeLoopToDot(_)
synchronizeLoopToDot(index) ==
    IF parserIsAtEnd(index) THEN index
    ELSE IF previousToken(index).kind = "Dot" THEN index
    ELSE synchronizeLoopToDot(advance(index))

RECURSIVE synchronizeLoop(_)
synchronizeLoop(index) ==
    IF parserIsAtEnd(index) THEN index
    ELSE IF previousToken(index).kind = "Dot" THEN index
    ELSE IF currentToken(index).kind \in SynchronizationKinds THEN index
    ELSE synchronizeLoop(advance(index))

synchronize(index) == synchronizeLoop(advance(index))

\* A catch clause that would return without synchronizing.
catchParseErrorWithoutSynchronize(rule) ==
    IF rule.ok
    THEN [ok |-> TRUE, statement |-> rule.node, index |-> rule.index,
          token |-> Token("None", <<>>, Null, 0), message |-> <<>>, thrownAt |-> rule.index]
    ELSE [ok |-> FALSE, statement |-> NoStatement, index |-> rule.index,
          token |-> rule.token, message |-> rule.message, thrownAt |-> rule.index]

\* The catch clause of parseDeclaration.
catchParseError(rule) ==
    IF rule.ok
    THEN [ok |-> TRUE, statement |-> rule.node, index |-> rule.index,
          token |-> Token("None", <<>>, Null, 0), message |-> <<>>, thrownAt |-> rule.index]
    ELSE [ok |-> FALSE, statement |-> NoStatement, index |-> synchronize(rule.index),
          token |-> rule.token, message |-> rule.message, thrownAt |-> rule.index]

\* parseDeclaration: the statement (or null, after a parse error and
\* synchronize) and the index it leaves.
parseDeclaration(index) ==
    catchParseError(IF matchAny({"KeywordDefinir"}, index)
                    THEN parseVariableDeclaration(advance(index))
                    ELSE parseStatement(index))

(***************************************************************************)
(* Environment.                                                            *)
(***************************************************************************)
Value(value) == [ok |-> TRUE, value |-> value]
RuntimeError(token, errorMessage) == [ok |-> FALSE, token |-> token, message |-> errorMessage]

NotDefinedMessage(lexeme) ==
    <<"El identificador \"">> \o lexeme \o <<"\" no se encuentra definido en este contexto.">>
AlreadyDefinedMessage(lexeme) ==
    <<"El identificador \"">> \o lexeme \o <<"\" ya se encuentra definido en este contexto.">>

has(map, lexeme) == lexeme \in DOMAIN map

\* get: the value bound, or the error thrown.
get(map, identifier) ==
    IF ~has(map, identifier.lexeme)
    THEN RuntimeError(identifier, NotDefinedMessage(identifier.lexeme))
    ELSE Value(map[identifier.lexeme])

\* A define that would bind the identifier whether or not it is bound.
defineOrOverwrite(map, identifier, value) ==
    [ok |-> TRUE, bindings |-> (identifier.lexeme :> value) @@ map]

\* A set that would check the identifier and leave the old value bound.
setKeepingValue(map, identifier, value) ==
    IF ~has(map, identifier.lexeme)
    THEN RuntimeError(identifier, NotDefinedMessage(identifier.lexeme))
    ELSE [ok |-> TRUE, bindings |-> map]

\* set and define: the bindings they leave, or the error thrown.
set(map, identifier, value) ==
    IF ~has(map, identifier.lexeme)
    THEN RuntimeError(identifier, NotDefinedMessage(identifier.lexeme))
    ELSE [ok |-> TRUE, bindings |-> [map EXCEPT ![identifier.lexeme] = value]]

define(map, identifier, value) ==
    IF has(map, identifier.lexeme)
    THEN RuntimeError(identifier, AlreadyDefinedMessage(identifier.lexeme))
    ELSE [ok |-> TRUE, bindings |-> (identifier.lexeme :> value) @@ map]

(***************************************************************************)
(* Interpreter.                                                            *)
(***************************************************************************)
BothOperandsMessage == <<"Se esperaba que ambos operandos fueran numeros.">>
LeftOperandMessage == <<"Se esperaba que el operando izquierdo fuera un numero.">>
RightOperandMessage == <<"Se esperaba que el operando derecho fuera un numero.">>
OperandMessage == <<"Se esperaba que el operando fuera un numero.">>
PlusOperandsMessage ==
    <<"Se esperaba que los operandos fueran ambos numeros o ambos textos.">>
DivisorMessage == <<"Se esperaba que el divisor fuera distinto de cero.">>

isNumber(value) == value.t = "number"
isString(value) == value.t = "string"
isBoolean(value) == value.t = "boolean"

\* An equality that would compare numbers with texts by what they print.
areLooselyEqual(first, second) ==
    \/ /\ first.t = second.t
       /\ CASE first.t = "null" -> TRUE
            [] first.t = "boolean" -> first.b = second.b
            [] first.t = "string" -> first.s = second.s
            [] first.t = "number" -> NumberEquals(first, second)
    \/ /\ {first.t, second.t} = {"number", "string"}
       /\ \E number \in {first, second}, text \in {first, second} :
            /\ number.t = "number"
            /\ text.t = "string"
            /\ number = Num(FALSE, 1, 1)
            /\ text.s = <<"1">>

\* first === second
areEqual(first, second) ==
    /\ first.t = second.t
    /\ CASE first.t = "null" -> TRUE
         [] first.t = "boolean" -> first.b = second.b
         [] first.t = "string" -> first.s = second.s
         [] first.t = "number" -> NumberEquals(first, second)

\* A test that would tell the divisor 0 from the divisor -0.
isPositiveZero(value) == isNumber(value) /\ value = Num(FALSE, 0, 1)

\* rightOperand === 0
isStrictlyZero(value) == isNumber(value) /\ NumberEquals(value, Num(FALSE, 0, 1))

\* A truthiness in which only null and false are false.
IsNeitherNullNorFalse(operand) ==
    CASE operand.t = "null" -> FALSE
      [] operand.t = "boolean" -> operand.b
      [] OTHER -> TRUE

\* Boolean(operand)
ToBoolean(operand) ==
    CASE operand.t = "null" -> FALSE
      [] operand.t = "boolean" -> operand.b
      [] operand.t = "string" -> operand.s # <<>>
      [] operand.t = "number" -> ~(operand.c = "nan" \/ IsZero(operand))

\* The error thrown, in a sequence, or the empty sequence.
assertOperandIsNumber(operand, operator) ==
    IF ~isNumber(operand) THEN <<RuntimeError(operator, OperandMessage)>> ELSE <<>>

assertOperandsAreNumbers(leftOperand, rightOperand, operator) ==
    IF ~isNumber(leftOperand)
    THEN IF ~isNumber(rightOperand)
         THEN <<RuntimeError(operator, BothOperandsMessage)>>
         ELSE <<RuntimeError(operator, LeftOperandMessage)>>
    ELSE IF ~isNumber(rightOperand)
         THEN <<RuntimeError(operator, RightOperandMessage)>>
         ELSE <<>>

\* The switch of visitBinaryExpression, on the operands' values.
applyBinaryOperator(leftOperand, operator, rightOperand) ==
    LET thrown == assertOperandsAreNumbers(leftOperand, rightOperand, operator)
        numeric(result) == IF thrown # <<>> THEN thrown[1] ELSE Value(result)
        kind == operator.kind
    IN  CASE kind = "Equal" -> Value(Bool(areEqual(leftOperand, rightOperand)))
          [] kind = "Unequal" -> Value(Bool(~areEqual(leftOperand, rightOperand)))
          [] kind = "Greater" -> numeric(Bool(LessThan(rightOperand, leftOperand)))
          [] kind = "GreaterOrEqual" ->
                numeric(Bool(LessThan(rightOperand, leftOperand)
                             \/ NumberEquals(leftOperand, rightOperand)))
          [] kind = "Less" -> numeric(Bool(LessThan(leftOperand, rightOperand)))
          [] kind = "LessOrEqual" ->
                numeric(Bool(LessThan(leftOperand, rightOperand)
                             \/ NumberEquals(leftOperand, rightOperand)))
          [] kind = "Plus" ->
                IF isNumber(leftOperand) /\ isNumber(rightOperand)
                THEN Value(Add(leftOperand, rightOperand))
                ELSE IF isString(leftOperand) /\ isString(rightOperand)
                THEN Value(Str(leftOperand.s \o rightOperand.s))
                ELSE RuntimeError(operator, PlusOperandsMessage)
          [] kind = "Minus" -> numeric(Subtract(leftOperand, rightOperand))
          [] kind = "Asterisk" -> numeric(Multiply(leftOperand, rightOperand))
          [] kind = "Slash" ->
                IF thrown # <<>> THEN thrown[1]
                ELSE IF isStrictlyZero(rightOperand)
                THEN RuntimeError(operator, DivisorMessage)
                ELSE Value(Divide(leftOperand, rightOperand))
          [] kind = "DoubleSlash" -> numeric(Remainder(leftOperand, rightOperand))
          [] OTHER -> Value(Null)

\* Number(value), on the values met here.
ToNumber(value) ==
    CASE value.t = "null" -> Num(FALSE, 0, 1)
      [] value.t = "boolean" -> IF value.b THEN Num(FALSE, 1, 1) ELSE Num(FALSE, 0, 1)
      [] value.t = "string" ->
            IF \A k \in DOMAIN value.s : value.s[k] \in Digits
            THEN Num(FALSE, DigitsValue(value.s, 0), 1)
            ELSE NaN
      [] value.t = "number" -> value

\* A unary minus that would not assert its operand but convert it.
applyUnaryOperatorCoercing(operator, operand) ==
    CASE operator.kind = "KeywordNo" -> Value(Bool(~ToBoolean(operand)))
      [] operator.kind = "Minus" -> Value(Negate(ToNumber(operand)))
      [] OTHER -> Value(Null)

\* The switch of visitUnaryExpression, on the operand's value.
applyUnaryOperator(operator, operand) ==
    CASE operator.kind = "KeywordNo" -> Value(Bool(~ToBoolean(operand)))
      [] operator.kind = "Minus" ->
            IF assertOperandIsNumber(operand, operator) # <<>>
            THEN assertOperandIsNumber(operand, operator)[1]
            ELSE Value(Negate(operand))
      [] OTHER -> Value(Null)

RECURSIVE evaluateExpression(_, _)
\* A binary rule that would evaluate its right operand first.
visitBinaryExpressionRightFirst(expression, map) ==
    OnReturn(evaluateExpression(expression.rightOperand, map), LAMBDA rightOperand :
        OnReturn(evaluateExpression(expression.leftOperand, map), LAMBDA leftOperand :
            applyBinaryOperator(leftOperand.value, expression.operator, rightOperand.value)))

visitBinaryExpression(expression, map) ==
    OnReturn(evaluateExpression(expression.leftOperand, map), LAMBDA leftOperand :
        OnReturn(evaluateExpression(expression.rightOperand, map), LAMBDA rightOperand :
            applyBinaryOperator(leftOperand.value, expression.operator, rightOperand.value)))

visitUnaryExpression(expression, map) ==
    OnReturn(evaluateExpression(expression.operand, map), LAMBDA operand :
        applyUnaryOperator(expression.operator, operand.value))

visitGroupingExpression(expression, map) == evaluateExpression(expression.innerExpression, map)

\* A literal rule that would yield no value.
visitLiteralExpressionAsNull(expression, map) == Value(Null)

visitLiteralExpression(expression, map) == Value(expression.value)
visitVariableAccessExpression(expression, map) == get(map, expression.name)

evaluateExpression(expression, map) ==
    CASE expression.e = "Literal" -> visitLiteralExpression(expression, map)
      [] expression.e = "Grouping" -> visitGroupingExpression(expression, map)
      [] expression.e = "Unary" -> visitUnaryExpression(expression, map)
      [] expression.e = "Binary" -> visitBinaryExpression(expression, map)
      [] expression.e = "VariableAccess" -> visitVariableAccessExpression(expression, map)

\* String(value)
jsString(value) ==
    CASE value.t = "null" -> <<"n", "u", "l", "l">>
      [] value.t = "string" -> value.s
      [] OTHER -> <<>>

stringify(value) ==
    IF value = Bool(TRUE) THEN [shape |-> "verdadero", number |-> NaN, text |-> <<>>]
    ELSE IF value = Bool(FALSE) THEN [shape |-> "falso", number |-> NaN, text |-> <<>>]
    ELSE IF value.t = "number" THEN [shape |-> "decimal", number |-> value, text |-> <<>>]
    ELSE [shape |-> "quoted", number |-> NaN,
          text |-> <<"\"">> \o jsString(value) \o <<"\"">>]

\* What executing a statement leaves: the bindings, the value computed and
\* the line logged, or
\* the runtime error thrown.
Done(map, value, logged) ==
    [ok |-> TRUE, bindings |-> map, value |-> value, logged |-> logged]

\* A declaration that would bind the identifier before it evaluates the
\* initializer.
visitVariableDeclarationStatementDefiningFirst(stmt, map) ==
    OnReturn(define(map, stmt.name, Null), LAMBDA defined :
        OnReturn(IF stmt.initializer.e # "null"
                 THEN evaluateExpression(stmt.initializer, defined.bindings)
                 ELSE Value(Null), LAMBDA value :
            Done([defined.bindings EXCEPT ![stmt.name.lexeme] = value.value],
                 value.value, <<>>)))

\* A declaration that would assign to the identifier when it is bound.
visitVariableDeclarationStatementAssigning(stmt, map) ==
    OnReturn(IF stmt.initializer.e # "null"
             THEN evaluateExpression(stmt.initializer, map)
             ELSE Value(Null), LAMBDA value :
        OnReturn(IF stmt.name.lexeme \in DOMAIN map
                 THEN set(map, stmt.name, value.value)
                 ELSE define(map, stmt.name, value.value), LAMBDA defined :
            Done(defined.bindings, value.value, <<>>)))

visitVariableDeclarationStatement(stmt, map) ==
    OnReturn(IF stmt.initializer.e # "null"
             THEN evaluateExpression(stmt.initializer, map)
             ELSE Value(Null), LAMBDA value :
        OnReturn(define(map, stmt.name, value.value), LAMBDA defined :
            Done(defined.bindings, value.value, <<>>)))

\* An expression statement that would evaluate without logging.
visitExpressionStatementSilent(stmt, map) ==
    OnReturn(evaluateExpression(stmt.expression, map), LAMBDA value :
        Done(map, value.value, <<>>))

visitExpressionStatement(stmt, map) ==
    OnReturn(evaluateExpression(stmt.expression, map), LAMBDA value :
        Done(map, value.value,
             <<[expression |-> stmt.expression, value |-> stringify(value.value)]>>))

executeStatement(stmt, map) ==
    IF stmt.s = "VariableDeclaration"
    THEN visitVariableDeclarationStatement(stmt, map)
    ELSE visitExpressionStatement(stmt, map)


(***************************************************************************)
(* Actions.                                                                *)
(***************************************************************************)
NoOutcome == [threw |-> FALSE, value |-> Null, logged |-> <<>>, error |-> <<>>]

\* YatayScanner.scanTokens: one iteration of the loop.
ScanToken ==
    /\ phase = "scan"
    /\ ~isAtEnd(currentIndex)
    /\ LET scanned == scanToken(currentIndex, currentLine)
       IN  /\ tokenStart' = currentIndex
           /\ currentIndex' = scanned.index
           /\ currentLine' = scanned.line
           /\ tokens' = tokens \o scanned.added
           /\ stderr' = stderr \o announceAll(currentLine, scanned.announced)
           /\ hadError' = (hadError \/ scanned.announced # <<>>)
    /\ UNCHANGED <<commandLineArguments, phase, sourceCode, parserVars, interpreterVars,
                   hadRuntimeError, exitStatus>>

\* YatayScanner.scanTokens: the end of the loop; the parser is constructed
\* on the list returned.
ScanEnd ==
    /\ phase = "scan"
    /\ isAtEnd(currentIndex)
    /\ tokens' = Append(tokens, Token("EndOfFile", <<>>, Null, currentLine))
    /\ currentTokenIndex' = 0
    /\ statements' = <<>>
    /\ phase' = "parse"
    /\ UNCHANGED <<commandLineArguments, scannerVars, declarations, interpreterVars,
                   hadError, hadRuntimeError,
                   stderr, exitStatus>>

\* A loop that would push whatever parseDeclaration returns, null included.
PushDeclarationUnchecked(declaration) ==
    /\ currentTokenIndex' = declaration.index
    /\ statements' = Append(statements, declaration.statement)
    /\ declarations' = Append(declarations,
                              [start |-> currentTokenIndex, ok |-> declaration.ok,
                               statement |-> declaration.statement,
                               thrownAt |-> declaration.thrownAt,
                               end |-> declaration.index])
    /\ stderr' = IF declaration.ok THEN stderr
                 ELSE Append(stderr,
                             announceParsingError(declaration.token, declaration.message))
    /\ hadError' = (hadError \/ ~declaration.ok)

\* YatayParser.parse: what the loop does with the declaration returned.
PushDeclaration(declaration) ==
    /\ currentTokenIndex' = declaration.index
    /\ statements' = IF declaration.statement # NoStatement
                     THEN Append(statements, declaration.statement)
                     ELSE statements
    /\ declarations' = Append(declarations,
                              [start |-> currentTokenIndex, ok |-> declaration.ok,
                               statement |-> declaration.statement,
                               thrownAt |-> declaration.thrownAt,
                               end |-> declaration.index])
    /\ stderr' = IF declaration.ok THEN stderr
                 ELSE Append(stderr,
                             announceParsingError(declaration.token, declaration.message))
    /\ hadError' = (hadError \/ ~declaration.ok)

\* YatayParser.parse: one iteration of the loop.
ParseDeclaration ==
    /\ phase = "parse"
    /\ ~parserIsAtEnd(currentTokenIndex)
    /\ PushDeclaration(parseDeclaration(currentTokenIndex))
    /\ UNCHANGED <<commandLineArguments, phase, scannerVars, tokens, interpreterVars,
                   hadRuntimeError, exitStatus>>

\* YatayCli.runSourceCode: parse has returned and an error was reported.
SkipInterpreter ==
    /\ phase = "parse"
    /\ parserIsAtEnd(currentTokenIndex)
    /\ hadError
    /\ phase' = "ran"
    /\ UNCHANGED <<commandLineArguments, scannerVars, tokens, parserVars, interpreterVars,
                   hadError,
                   hadRuntimeError, stderr, exitStatus>>

\* A driver that would clear its static-error flag and call interpret.
InterpretClearingError ==
    /\ phase = "parse"
    /\ parserIsAtEnd(currentTokenIndex)
    /\ phase' = "interpret"
    /\ pending' = Len(statements)
    /\ hadError' = FALSE
    /\ UNCHANGED <<commandLineArguments, calls, returnedCalls, scannerVars, tokens, parserVars,
                   statement, outcome, executed, bindings,
                   traceLines, hadRuntimeError, stderr, exitStatus>>

\* A driver that would call interpret whether or not an error was reported.
InterpretRegardless ==
    /\ phase = "parse"
    /\ parserIsAtEnd(currentTokenIndex)
    /\ phase' = "interpret"
    /\ pending' = Len(statements)
    /\ UNCHANGED <<commandLineArguments, calls, returnedCalls, scannerVars, tokens, parserVars, statement,
                   outcome, executed, bindings,
                   traceLines, hadError, hadRuntimeError, stderr, exitStatus>>

\* YatayCli.runSourceCode: parse has returned without any error reported;
\* interpret is called on the statements.
Interpret ==
    /\ phase = "parse"
    /\ parserIsAtEnd(currentTokenIndex)
    /\ ~hadError
    /\ phase' = "interpret"
    /\ pending' = Len(statements)
    /\ UNCHANGED <<commandLineArguments, calls, returnedCalls, scannerVars, tokens, parserVars, statement,
                   outcome, executed, bindings,
                   traceLines, hadError, hadRuntimeError, stderr, exitStatus>>

\* A loop whose catch clause would sit inside it: the error is announced and
\* the loop goes on with the next statement.
ExecutedAndResumed(result) ==
    IF result.ok
    THEN /\ bindings' = result.bindings
         /\ traceLines' = traceLines + Len(result.logged)
         /\ outcome' = [threw |-> FALSE, value |-> result.value,
                        logged |-> result.logged, error |-> <<>>]
         /\ pending' = pending - 1
         /\ UNCHANGED <<phase, stderr, hadRuntimeError>>
    ELSE /\ outcome' = [threw |-> TRUE, value |-> Null, logged |-> <<>>,
                        error |-> <<result>>]
         /\ stderr' = Append(stderr, announceRuntimeError(result))
         /\ hadRuntimeError' = TRUE
         /\ pending' = pending - 1
         /\ UNCHANGED <<phase, bindings, traceLines>>

\* YatayInterpreter.interpret: what the loop does once executeStatement has
\* returned or thrown (the catch clause).
Executed(result) ==
    IF result.ok
    THEN /\ bindings' = result.bindings
         /\ traceLines' = traceLines + Len(result.logged)
         /\ outcome' = [threw |-> FALSE, value |-> result.value,
                        logged |-> result.logged, error |-> <<>>]
         /\ pending' = pending - 1
         /\ UNCHANGED <<phase, stderr, hadRuntimeError>>
    ELSE /\ outcome' = [threw |-> TRUE, value |-> Null, logged |-> <<>>,
                        error |-> <<result>>]
         /\ stderr' = Append(stderr, announceRuntimeError(result))
         /\ hadRuntimeError' = TRUE
         /\ phase' = "ran"
         /\ UNCHANGED <<pending, bindings, traceLines>>

\* YatayInterpreter.interpret: one iteration of the loop, on statement stmt.
ExecuteStatement(stmt) ==
    /\ phase = "interpret"
    /\ pending > 0
    /\ statement' = stmt
    /\ executed' = executed + 1
    /\ Executed(executeStatement(stmt, bindings))
    /\ UNCHANGED <<commandLineArguments, calls, returnedCalls, scannerVars, tokens, parserVars, hadError,
                   exitStatus>>

\* The loop of interpret on the list built by the parser.
ExecuteParsed ==
    /\ pending > 0
    /\ pending <= Len(statements)
    /\ ExecuteStatement(statements[Len(statements) - pending + 1])

\* YatayInterpreter.interpret: the end of the loop.
InterpretEnd ==
    /\ phase = "interpret"
    /\ pending = 0
    /\ phase' = "ran"
    /\ UNCHANGED <<commandLineArguments, scannerVars, tokens, parserVars, interpreterVars,
                   hadError,
                   hadRuntimeError, stderr, exitStatus>>

\* A driver that would exit with a status of its own only after a static
\* error.
ExitOnStaticErrorOnly ==
    /\ phase = "ran"
    /\ exitStatus' = IF hadError THEN 65 ELSE 0
    /\ phase' = "exited"
    /\ UNCHANGED <<commandLineArguments, scannerVars, tokens, parserVars, interpreterVars,
                   hadError, hadRuntimeError, stderr>>

\* YatayCli.runFile: the status after runSourceCode (0: it returns).
Exit ==
    /\ phase = "ran"
    /\ exitStatus' = IF hadError THEN 65 ELSE IF hadRuntimeError THEN 70 ELSE 0
    /\ phase' = "exited"
    /\ UNCHANGED <<commandLineArguments, scannerVars, tokens, parserVars, interpreterVars,
                   hadError,
                   hadRuntimeError, stderr>>

(***************************************************************************)
(* Spec: the driver run on a source text.                                  *)
(***************************************************************************)
\* A command line argument: the path of a file, given as whether the file can
\* be read and the text it holds.
File(content) == [readable |-> TRUE, content |-> content]
NoFile == [readable |-> FALSE, content |-> <<>>]

Alphabet == {"1", "_", ".", "\n", ":", "\"", "x"}

Sources == UNION {[1..n -> Alphabet] : n \in 0..MaxLen}

Constructed ==
    /\ tokenStart = 0
    /\ currentIndex = 0
    /\ currentLine = 1
    /\ currentTokenIndex = 0
    /\ statements = <<>>
    /\ declarations = <<>>
    /\ statement = NoStatement
    /\ outcome = NoOutcome
    /\ executed = 0
    /\ bindings = <<>>
    /\ hadError = FALSE
    /\ hadRuntimeError = FALSE
    /\ stderr = <<>>
    /\ traceLines = 0
    /\ exitStatus = -1
    /\ calls = <<>>
    /\ returnedCalls = 0

Init ==
    /\ phase = "scan"
    /\ sourceCode \in Sources
    /\ tokens = <<>>
    /\ pending = 0
    /\ commandLineArguments = <<File(sourceCode)>>
    /\ Constructed

Next ==
    \/ ScanToken
    \/ ScanEnd
    \/ ParseDeclaration
    \/ SkipInterpreter
    \/ Interpret
    \/ ExecuteParsed
    \/ InterpretEnd
    \/ Exit

Spec == Init /\ [][Next]_vars


(***************************************************************************)
(* SpecParse: the driver from the construction of the parser on, run on a  *)
(* token list that ends with the End Of File token.  The k-th token lies   *)
(* on line k.                                                              *)
(***************************************************************************)
LexemeOf(kind) ==
    CASE kind = "Number" -> <<"1">>
      [] kind = "Dot" -> <<".">>
      [] kind = "KeywordDefinir" -> <<"d", "e", "f", "i", "n", "i", "r">>
      [] kind = "Identifier" -> <<"x">>
      [] kind = "Assign" -> <<"<", "=">>
      [] kind = "Minus" -> <<"-">>
      [] kind = "OpeningParenthesis" -> <<"(">>
      [] kind = "ClosingParenthesis" -> <<")">>
      [] kind = "KeywordSi" -> <<"s", "i">>
      [] kind = "KeywordNo" -> <<"n", "o">>
      [] kind = "KeywordVerdadero" -> <<"v", "e", "r", "d", "a", "d", "e", "r", "o">>
      [] kind = "Equal" -> <<"=">>
      [] kind = "Unequal" -> <<">", "<">>
      [] kind = "Less" -> <<"<">>
      [] kind = "LessOrEqual" -> <<"=", "<">>
      [] kind = "Greater" -> <<">">>
      [] kind = "GreaterOrEqual" -> <<">", "=">>
      [] kind = "Plus" -> <<"+">>
      [] kind = "Asterisk" -> <<"*">>
      [] kind = "Slash" -> <<"/">>
      [] kind = "DoubleSlash" -> <<"/", "/">>
      [] OTHER -> <<>>

TokenOfKind(kind, line) ==
    Token(kind, LexemeOf(kind), IF kind = "Number" THEN Num(FALSE, 1, 1) ELSE Null, line)

ParseKinds ==
    {"Number", "Dot", "KeywordDefinir", "Identifier", "Assign", "Minus",
     "OpeningParenthesis", "ClosingParenthesis", "KeywordSi"}

TokenLists ==
    {[k \in 1..Len(kinds) + 1 |->
        IF k <= Len(kinds) THEN TokenOfKind(kinds[k], k) ELSE TokenOfKind("EndOfFile", k)] :
     kinds \in UNION {[1..n -> ParseKinds] : n \in 0..MaxTokens}}

InitParse ==
    /\ phase = "parse"
    /\ sourceCode = <<>>
    /\ tokens \in TokenLists
    /\ pending = 0
    /\ commandLineArguments = <<File(sourceCode)>>
    /\ Constructed

NextParse ==
    \/ ParseDeclaration
    \/ SkipInterpreter
    \/ Interpret
    \/ ExecuteParsed
    \/ InterpretEnd
    \/ Exit

SpecParse == InitParse /\ [][NextParse]_vars

(***************************************************************************)
(* SpecInterpret: interpret called on a list of at most MaxStatements      *)
(* statements; each statement of the list is drawn when the loop reaches   *)
(* it.  In a binary expression the operator lies one line below the left   *)
(* operand and one above the right one, in a unary expression the operand  *)
(* lies one line below the operator.                                       *)
(***************************************************************************)
LiteralValues ==
    {Bool(TRUE), Bool(FALSE), Num(FALSE, 0, 1), Num(FALSE, 1, 1), Str(<<>>), Str(<<"1">>)}

Atoms(line) ==
    {LiteralExpression(value) : value \in LiteralValues}
    \cup {VariableAccessExpression(TokenOfKind("Identifier", line))}

Operands(line) ==
    {LiteralExpression(value) : value \in {Num(FALSE, 0, 1), Num(FALSE, 1, 1), Str(<<"1">>)}}
    \cup {VariableAccessExpression(TokenOfKind("Identifier", line))}

BinaryOperators == ComparisonOperators \cup TermOperators \cup FactorOperators

Expressions ==
    Atoms(1)
    \cup {UnaryExpression(TokenOfKind(kind, 1), operand) :
            kind \in UnaryOperators, operand \in Atoms(2)}
    \cup {BinaryExpression(leftOperand, TokenOfKind(kind, 2), rightOperand) :
            leftOperand \in Operands(1), kind \in BinaryOperators, rightOperand \in Operands(3)}

Statements ==
    {ExpressionStatement(expression) : expression \in Expressions}
    \cup {VariableDeclarationStatement(TokenOfKind("Identifier", 1), initializer) :
            initializer \in Expressions \cup {NoExpression}}

InitInterpret ==
    /\ phase = "interpret"
    /\ sourceCode = <<>>
    /\ tokens = <<>>
    /\ pending \in 1..MaxStatements
    /\ commandLineArguments = <<File(sourceCode)>>
    /\ Constructed

\* The loop of interpret on a list given by the caller.
ExecuteGiven == \E stmt \in Statements : ExecuteStatement(stmt)

NextInterpret ==
    \/ ExecuteGiven
    \/ InterpretEnd
    \/ Exit

SpecInterpret == InitInterpret /\ [][NextInterpret]_vars


(***************************************************************************)
(* Properties.                                                             *)
(***************************************************************************)

\* C1: once a scanning or parsing error has been reported the interpreter is
\* not invoked: the run never enters interpret, no statement is executed, no
\* trace line is written, no binding is created and hadRuntimeError stays
\* false.
NoInterpreterAfterStaticError ==
    hadError =>
        /\ phase # "interpret"
        /\ executed = 0
        /\ traceLines = 0
        /\ DOMAIN bindings = {}
        /\ ~hadRuntimeError

\* The run has ended on a source whose only errors are scanning errors: every
\* declaration of its token list was parsed, and there is at least one.
ScanErrorOnlyRunEnded ==
    /\ phase = "exited"
    /\ hadError
    /\ statements # <<>>
    /\ \A k \in DOMAIN declarations : declarations[k].ok
    /\ exitStatus = 65

\* C2: when the execution of a statement throws a runtime error, interpret
\* returns to the driver without executing any later statement, the error
\* has been announced exactly once, hadRuntimeError is true, and nothing is
\* executed or announced afterwards.
RuntimeErrorAbortsProgram ==
    /\ [](outcome.threw =>
            /\ phase \in {"ran", "exited"}
            /\ hadRuntimeError
            /\ stderr = <<announceRuntimeError(outcome.error[1])>>)
    /\ [][outcome.threw =>
            /\ outcome'.threw
            /\ UNCHANGED <<executed, statement, bindings, traceLines, stderr, pending>>]_vars

\* A statement threw while another statement of the list was still to come,
\* and the driver has exited with the status of a runtime error.
ThrewBeforeLastStatement ==
    /\ outcome.threw
    /\ pending > 1
    /\ phase = "exited"
    /\ exitStatus = 70

\* C3: the token list returned by scanTokens holds exactly one EndOfFile
\* token, as its last element, and the line of that token is 1 plus the
\* number of newline characters of the source.
NewlinesOf(text) == Cardinality({k \in DOMAIN text : text[k] = "\n"})

SingleEndOfFileOnLastLine ==
    phase # "scan" =>
        /\ tokens # <<>>
        /\ \A k \in DOMAIN tokens : (tokens[k].kind = "EndOfFile") <=> (k = Len(tokens))
        /\ tokens[Len(tokens)].line = 1 + NewlinesOf(sourceCode)

\* scanTokens has returned on a source in which a newline cuts off an
\* unterminated text.
ScannedTextCutOffByNewline ==
    /\ phase = "parse"
    /\ currentTokenIndex = 0
    /\ hadError
    /\ \E k \in DOMAIN sourceCode :
            /\ k > 1
            /\ sourceCode[k] = "\n"
            /\ sourceCode[k - 1] = "\""
    /\ tokens[Len(tokens)].line > 1

\* The declarations parsed so far without a parse error, and those dropped.
ParsedWithoutError == SelectSeq(declarations, LAMBDA d : d.ok)
Dropped == SelectSeq(declarations, LAMBDA d : ~d.ok)

\* C4: the statement list built by parse holds exactly the declarations
\* parsed without a parse error, in the order of the tokens; a declaration in
\* which a parse error occurs contributes no statement, and parsing goes on
\* after it, up to the End Of File token.
StatementsAreDeclarationsParsed ==
    /\ Len(statements) = Len(ParsedWithoutError)
    /\ \A k \in DOMAIN statements :
            /\ statements[k] = ParsedWithoutError[k].statement
            /\ statements[k] # NoStatement
    /\ \A k \in DOMAIN declarations :
            /\ declarations[k].start < declarations[k].end
            /\ declarations[k].start = IF k = 1 THEN 0 ELSE declarations[k - 1].end
            /\ declarations[k].ok => previousToken(declarations[k].end).kind = "Dot"
            /\ ~declarations[k].ok => declarations[k].statement = NoStatement
    /\ (phase # "parse" /\ tokens # <<>>) =>
            /\ parserIsAtEnd(currentTokenIndex)
            /\ declarations # <<>> => declarations[Len(declarations)].end = currentTokenIndex

\* parse has returned after dropping a declaration and parsing a later one.
ParsedAfterDroppedDeclaration ==
    /\ phase # "parse"
    /\ \E j, k \in DOMAIN declarations :
            /\ j < k
            /\ ~declarations[j].ok
            /\ declarations[k].ok
    /\ Len(statements) < Len(declarations)
    /\ statements # <<>>

\* The condition on which synchronize stops at index.
IsBoundary(index) ==
    \/ parserIsAtEnd(index)
    \/ index > 0 /\ previousToken(index).kind = "Dot"
    \/ currentToken(index).kind \in SynchronizationKinds

\* Parsing resumes at the earliest boundary at or after index from.
ResumesAtEarliestBoundary(from, end) ==
    /\ from <= end
    /\ IsBoundary(end)
    /\ \A index \in from..(end - 1) : ~IsBoundary(index)

\* C5 as stated: after a parse error at offending token t, parsing of
\* declarations resumes at the earliest position at or after t where the
\* previous token is "." or the current token is clase, definir, devolver,
\* mientras, repetir, si or End Of File.
ResumesAtOrAfterOffendingToken ==
    \A k \in DOMAIN declarations :
        ~declarations[k].ok =>
            ResumesAtEarliestBoundary(declarations[k].thrownAt, declarations[k].end)

\* C5, amended: synchronize first consumes the offending token t (unless t
\* is End Of File), so parsing of declarations resumes at the earliest such
\* position strictly after t, and no token at or beyond that position is
\* discarded: the next declaration starts there.
ResumesAfterOffendingToken ==
    \A k \in DOMAIN declarations :
        ~declarations[k].ok =>
            /\ ResumesAtEarliestBoundary(
                    IF parserIsAtEnd(declarations[k].thrownAt)
                    THEN declarations[k].thrownAt
                    ELSE declarations[k].thrownAt + 1,
                    declarations[k].end)
            /\ IF k < Len(declarations)
               THEN declarations[k + 1].start = declarations[k].end
               ELSE currentTokenIndex = declarations[k].end

\* A parse error whose offending token is definir: the declaration that
\* token starts was discarded with it.
DefinirDiscardedAsOffendingToken ==
    \E k \in DOMAIN declarations :
        /\ ~declarations[k].ok
        /\ currentToken(declarations[k].thrownAt).kind = "KeywordDefinir"
        /\ declarations[k].thrownAt > declarations[k].start
        /\ declarations[k].end > declarations[k].thrownAt + 1

\* C6: every parse error is reported exactly once: as long as only the
\* parser has reported, the standard error stream holds one line per dropped
\* declaration, in order, on the line of the offending token, located at
\* "el final" when that token is End Of File and at its quoted lexeme
\* otherwise.
ParseErrorsReportedOnce ==
    (phase = "parse" \/ hadError) =>
        /\ Len(stderr) = Len(Dropped)
        /\ \A k \in DOMAIN stderr :
                LET token == currentToken(Dropped[k].thrownAt)
                IN  /\ stderr[k].line = token.line
                    /\ stderr[k].label = "] Error en "
                    /\ (stderr[k].location = <<"el final">>) <=> (token.kind = "EndOfFile")
                    /\ token.kind # "EndOfFile" =>
                            stderr[k].location = <<"\"">> \o token.lexeme \o <<"\"">>

\* parse has returned on a program whose last expression is not followed by
\* ".", after an earlier error at another token.
ReportedAtTheEndAndAtLexeme ==
    /\ phase = "exited"
    /\ Len(stderr) = 2
    /\ stderr[1].location # <<"el final">>
    /\ stderr[2].location = <<"el final">>
    /\ previousToken(Len(tokens) - 1).kind = "Number"

\* The expression evaluated by the statement executed last, and what its
\* operands evaluate to in the bindings (an expression statement leaves the
\* bindings as they were).
Evaluated == IF statement.s = "Expression" THEN statement.expression ELSE statement.initializer
EvaluatedLeft == evaluateExpression(Evaluated.leftOperand, bindings)
EvaluatedRight == evaluateExpression(Evaluated.rightOperand, bindings)
EvaluatedOperand == evaluateExpression(Evaluated.operand, bindings)

ExecutedBinary(kind) ==
    /\ executed > 0
    /\ statement.s = "Expression"
    /\ Evaluated.e = "Binary"
    /\ Evaluated.operator.kind = kind
    /\ EvaluatedLeft.ok
    /\ EvaluatedRight.ok

ExecutedUnary(kind) ==
    /\ executed > 0
    /\ statement.s = "Expression"
    /\ Evaluated.e = "Unary"
    /\ Evaluated.operator.kind = kind
    /\ EvaluatedOperand.ok

\* The identifiers accessed by the expression evaluated.
NameOf(expression) == IF expression.e = "VariableAccess" THEN {expression.name} ELSE {}

AccessedNames ==
    IF Evaluated.e = "Unary" THEN NameOf(Evaluated.operand)
    ELSE IF Evaluated.e = "Binary"
    THEN NameOf(Evaluated.leftOperand) \cup NameOf(Evaluated.rightOperand)
    ELSE NameOf(Evaluated)

\* The token of the runtime error thrown last is the operator of the
\* expression for an error about operands, and the identifier for an
\* identifier that is not defined or already defined.
ThrownAtOffendingToken ==
    LET error == outcome.error[1]
    IN  IF error.message \in {BothOperandsMessage, LeftOperandMessage, RightOperandMessage,
                              OperandMessage, PlusOperandsMessage, DivisorMessage}
        THEN /\ Evaluated.e \in {"Unary", "Binary"}
             /\ error.token = Evaluated.operator
        ELSE IF error.message = AlreadyDefinedMessage(error.token.lexeme)
        THEN /\ statement.s = "VariableDeclaration"
             /\ error.token = statement.name
        ELSE /\ error.message = NotDefinedMessage(error.token.lexeme)
             /\ error.token \in AccessedNames

\* C7 as stated: a runtime error is written in the shape of a static error
\* without location, "[Linea <n>] Error: <message>", with n the line of the
\* offending token.
RuntimeErrorShapedAsStaticError ==
    outcome.threw =>
        /\ stderr[Len(stderr)] = reportError(outcome.error[1].token.line,
                                             outcome.error[1].message, <<>>)
        /\ ThrownAtOffendingToken

\* C7, what the code does: a runtime error is written as "[Linea <n>]
\* <message>", without the word Error, with n the line of the offending
\* token.
RuntimeErrorWrittenWithoutLabel ==
    outcome.threw =>
        /\ stderr[Len(stderr)] =
                [prefix |-> "[Linea ", line |-> outcome.error[1].token.line, label |-> "] ",
                 location |-> <<>>, separator |-> "", message |-> outcome.error[1].message]
        /\ ThrownAtOffendingToken

\* A division by zero was reported on the line of its operator, below the
\* line where the statement starts.
DivisorErrorWrittenOnOperatorLine ==
    /\ outcome.threw
    /\ outcome.error[1].message = DivisorMessage
    /\ stderr[Len(stderr)].line = 2
    /\ stderr[Len(stderr)].label = "] "

\* C8: a / b on two numbers throws the runtime error about the divisor, at
\* the operator, exactly when b is zero (of either sign, whether written,
\* negated or computed), and evaluates to the quotient otherwise.
DivisionThrowsIffDivisorIsZero ==
    (ExecutedBinary("Slash") /\ isNumber(EvaluatedLeft.value) /\ isNumber(EvaluatedRight.value)) =>
        IF EvaluatedRight.value.c = "finite" /\ EvaluatedRight.value.n = 0
        THEN /\ outcome.threw
             /\ outcome.error[1] = RuntimeError(Evaluated.operator, DivisorMessage)
        ELSE /\ ~outcome.threw
             /\ outcome.value = Divide(EvaluatedLeft.value, EvaluatedRight.value)

\* A division by a variable that holds the zero got by negation was refused.
DividedByNegatedZero ==
    /\ ExecutedBinary("Slash")
    /\ Evaluated.rightOperand.e = "VariableAccess"
    /\ EvaluatedRight.value = [Num(FALSE, 0, 1) EXCEPT !.neg = TRUE]
    /\ isNumber(EvaluatedLeft.value)
    /\ outcome.threw
    /\ outcome.error[1].message = DivisorMessage

\* C9 as stated: no v is true exactly when v is null or false; it is false
\* for every number and every text.
NoIsTrueOnlyOfNullAndFalse ==
    ExecutedUnary("KeywordNo") =>
        /\ ~outcome.threw
        /\ outcome.value = Bool(EvaluatedOperand.value.t = "null"
                                \/ EvaluatedOperand.value = Bool(FALSE))

\* C9, what the code does: no v is true exactly when v is null, false, a
\* zero, NaN or the empty text.
NoIsTrueOfEveryFalsyValue ==
    ExecutedUnary("KeywordNo") =>
        /\ ~outcome.threw
        /\ outcome.value =
                Bool(\/ EvaluatedOperand.value.t = "null"
                     \/ EvaluatedOperand.value = Bool(FALSE)
                     \/ /\ EvaluatedOperand.value.t = "number"
                        /\ \/ EvaluatedOperand.value.c = "nan"
                           \/ EvaluatedOperand.value.c = "finite" /\ EvaluatedOperand.value.n = 0
                     \/ EvaluatedOperand.value = Str(<<>>))

\* no was applied to the number 0 and evaluated to true.
NoOfZeroIsTrue ==
    /\ ExecutedUnary("KeywordNo")
    /\ Evaluated.operand = LiteralExpression(Num(FALSE, 0, 1))
    /\ outcome.value = Bool(TRUE)

\* Two values of the same variant with equal content, NaN taken as equal to
\* itself and the two zeros as equal.
SameVariantAndContent(first, second) ==
    /\ first.t = second.t
    /\ IF first.t = "number"
       THEN (first.c = "nan" /\ second.c = "nan") \/ NumberEquals(first, second)
       ELSE first = second

EqualityOutcome(kind, equal) ==
    ExecutedBinary(kind) =>
        /\ ~outcome.threw
        /\ outcome.value = Bool(IF kind = "Equal" THEN equal ELSE ~equal)

\* C10 as stated: a = b never throws and is true exactly when a and b are of
\* the same variant with equal content; a >< b is its negation.
EqualIffSameVariantAndContent ==
    /\ EqualityOutcome("Equal", SameVariantAndContent(EvaluatedLeft.value, EvaluatedRight.value))
    /\ EqualityOutcome("Unequal", SameVariantAndContent(EvaluatedLeft.value, EvaluatedRight.value))

\* C10, what the code does: a = b never throws and is true exactly when a
\* and b are of the same variant with equal content and are not NaN; a >< b
\* is its negation; values of different variants are unequal.
EqualIffSameVariantAndContentButNaN ==
    /\ EqualityOutcome("Equal",
            /\ SameVariantAndContent(EvaluatedLeft.value, EvaluatedRight.value)
            /\ ~(isNumber(EvaluatedLeft.value) /\ EvaluatedLeft.value.c = "nan"))
    /\ EqualityOutcome("Unequal",
            /\ SameVariantAndContent(EvaluatedLeft.value, EvaluatedRight.value)
            /\ ~(isNumber(EvaluatedLeft.value) /\ EvaluatedLeft.value.c = "nan"))

\* A variable that holds NaN was compared with itself and found unequal.
NaNUnequalToItself ==
    /\ ExecutedBinary("Equal")
    /\ Evaluated.leftOperand.e = "VariableAccess"
    /\ Evaluated.rightOperand.e = "VariableAccess"
    /\ EvaluatedLeft.value = NaN
    /\ outcome.value = Bool(FALSE)

NumericOperators ==
    {"Less", "LessOrEqual", "Greater", "GreaterOrEqual", "Minus", "Asterisk", "Slash",
     "DoubleSlash"}

\* C11: no operator converts its operands.  The comparisons <, =<, >, >=,
\* the binary -, *, /, // and the unary - throw a runtime error at the
\* operator unless every operand is a number (and then only / throws, on a
\* zero divisor); + gives the sum of two numbers, the concatenation of two
\* texts, and throws for every other pair of operands.
NoOperatorCoercesOperands ==
    /\ \A kind \in NumericOperators :
            ExecutedBinary(kind) =>
                IF isNumber(EvaluatedLeft.value) /\ isNumber(EvaluatedRight.value)
                THEN IF outcome.threw
                     THEN kind = "Slash" /\ outcome.error[1].message = DivisorMessage
                     ELSE outcome.value.t = IF kind \in ComparisonOperators
                                            THEN "boolean" ELSE "number"
                ELSE /\ outcome.threw
                     /\ outcome.error[1].token = Evaluated.operator
                     /\ outcome.error[1].message \in
                            {BothOperandsMessage, LeftOperandMessage, RightOperandMessage}
    /\ ExecutedBinary("Plus") =>
            IF isNumber(EvaluatedLeft.value) /\ isNumber(EvaluatedRight.value)
            THEN /\ ~outcome.threw
                 /\ outcome.value = Add(EvaluatedLeft.value, EvaluatedRight.value)
            ELSE IF isString(EvaluatedLeft.value) /\ isString(EvaluatedRight.value)
            THEN /\ ~outcome.threw
                 /\ outcome.value = Str(EvaluatedLeft.value.s \o EvaluatedRight.value.s)
            ELSE /\ outcome.threw
                 /\ outcome.error[1] = RuntimeError(Evaluated.operator, PlusOperandsMessage)
    /\ ExecutedUnary("Minus") =>
            IF isNumber(EvaluatedOperand.value)
            THEN /\ ~outcome.threw
                 /\ outcome.value = Negate(EvaluatedOperand.value)
            ELSE /\ outcome.threw
                 /\ outcome.error[1] = RuntimeError(Evaluated.operator, OperandMessage)

\* The boolean held by a variable and a number were added: it was refused
\* at the operator.
BooleanPlusNumberRefused ==
    /\ ExecutedBinary("Plus")
    /\ Evaluated.leftOperand.e = "VariableAccess"
    /\ isBoolean(EvaluatedLeft.value)
    /\ isNumber(EvaluatedRight.value)
    /\ outcome.threw
    /\ outcome.error[1].token = Evaluated.operator

(***************************************************************************)
(* SpecEnvironment: an environment on which get, set and define are called *)
(* in any order, at most MaxCalls times.                                   *)
(***************************************************************************)
MaxCalls == 3

EnvironmentIdentifiers == {Token("Identifier", <<name>>, Null, 1) : name \in {"x", "y"}}

EnvironmentValues == {Null, Bool(TRUE), Num(FALSE, 1, 1)}

\* One call on the environment: what it returns or throws is logged.
EnvironmentCall(operation, identifier, value, result) ==
    /\ phase = "environment"
    /\ Len(calls) < MaxCalls
    /\ calls' = Append(calls,
                       [operation |-> operation, identifier |-> identifier, value |-> value,
                        ok |-> result.ok,
                        returned |-> IF result.ok /\ operation = "get"
                                     THEN result.value ELSE Null,
                        error |-> IF result.ok THEN <<>> ELSE <<result>>])
    /\ bindings' = IF result.ok /\ operation # "get" THEN result.bindings ELSE bindings
    /\ UNCHANGED <<commandLineArguments, returnedCalls, phase, scannerVars, tokens,
                   parserVars, pending,
                   statement, outcome, executed, traceLines, hadError, hadRuntimeError,
                   stderr, exitStatus>>

EnvironmentGet ==
    \E identifier \in EnvironmentIdentifiers :
        EnvironmentCall("get", identifier, Null, get(bindings, identifier))

EnvironmentSet ==
    \E identifier \in EnvironmentIdentifiers, value \in EnvironmentValues :
        EnvironmentCall("set", identifier, value, set(bindings, identifier, value))

EnvironmentDefine ==
    \E identifier \in EnvironmentIdentifiers, value \in EnvironmentValues :
        EnvironmentCall("define", identifier, value, define(bindings, identifier, value))

InitEnvironment ==
    /\ phase = "environment"
    /\ commandLineArguments = <<>>
    /\ sourceCode = <<>>
    /\ tokens = <<>>
    /\ pending = 0
    /\ Constructed

NextEnvironment ==
    \/ EnvironmentGet
    \/ EnvironmentSet
    \/ EnvironmentDefine

SpecEnvironment == InitEnvironment /\ [][NextEnvironment]_vars

\* C12: a call that fails leaves the bindings as they were: define on a
\* bound lexeme throws the error of an identifier already defined and keeps
\* the value bound; set and get on a lexeme that is not bound throw the error
\* of an identifier not defined and bind nothing.
FailedCallLeavesBindings ==
    [][Len(calls') = Len(calls) + 1 =>
        LET call == calls'[Len(calls')]
            lexeme == call.identifier.lexeme
        IN  /\ (call.operation = "define" /\ lexeme \in DOMAIN bindings) =>
                    /\ ~call.ok
                    /\ call.error =
                            <<RuntimeError(call.identifier, AlreadyDefinedMessage(lexeme))>>
            /\ (call.operation \in {"set", "get"} /\ lexeme \notin DOMAIN bindings) =>
                    /\ ~call.ok
                    /\ call.error = <<RuntimeError(call.identifier, NotDefinedMessage(lexeme))>>
            /\ ~call.ok => bindings' = bindings]_vars

\* define was refused on a lexeme bound to another value, which it still
\* holds, after a set was refused on the other lexeme, which is still not
\* bound.
RefusedDefineAfterRefusedSet ==
    /\ Len(calls) = 3
    /\ calls[2].operation = "set"
    /\ ~calls[2].ok
    /\ calls[2].identifier.lexeme \notin DOMAIN bindings
    /\ calls[3].operation = "define"
    /\ ~calls[3].ok
    /\ bindings[calls[3].identifier.lexeme] # calls[3].value

\* The calls among the first upTo that wrote lexeme, and the value written
\* by the last of them.
Writes(lexeme, upTo) ==
    {k \in 1..upTo : /\ calls[k].ok
                     /\ calls[k].operation \in {"define", "set"}
                     /\ calls[k].identifier.lexeme = lexeme}

Defines(lexeme, upTo) == {k \in Writes(lexeme, upTo) : calls[k].operation = "define"}

LastWritten(lexeme, upTo) ==
    calls[CHOOSE k \in Writes(lexeme, upTo) : \A j \in Writes(lexeme, upTo) : j <= k].value

\* C13: get succeeds exactly on the lexemes some earlier define succeeded on,
\* and returns the value of the last successful define or set on the lexeme;
\* the bound lexemes are those a define succeeded on, each defined once and
\* bound to the value written last.
GetReturnsLastWritten ==
    /\ DOMAIN bindings =
            {identifier.lexeme : identifier \in
                {i \in EnvironmentIdentifiers : Defines(i.lexeme, Len(calls)) # {}}}
    /\ \A lexeme \in DOMAIN bindings :
            /\ Cardinality(Defines(lexeme, Len(calls))) = 1
            /\ bindings[lexeme] = LastWritten(lexeme, Len(calls))
    /\ \A k \in DOMAIN calls :
            calls[k].operation = "get" =>
                /\ calls[k].ok <=> Defines(calls[k].identifier.lexeme, k - 1) # {}
                /\ calls[k].ok =>
                        calls[k].returned = LastWritten(calls[k].identifier.lexeme, k - 1)

\* get returned the value a set wrote over the one defined.
GotValueSetOverDefined ==
    /\ Len(calls) = 3
    /\ calls[1].operation = "define"
    /\ calls[2].operation = "set"
    /\ calls[2].ok
    /\ calls[2].value # calls[1].value
    /\ calls[3].operation = "get"
    /\ calls[3].ok
    /\ calls[3].returned = calls[2].value

\* C14: a variable declaration evaluates its initializer in the bindings as
\* they are before the declaration (null when there is none) and only then
\* defines the identifier: an error thrown by the initializer, such as the
\* access to the identifier being declared, leaves the bindings as they
\* were; so does the declaration of an identifier already bound, which
\* throws; otherwise the identifier is bound to the value of the initializer.
DeclarationEvaluatesThenDefines ==
    [][(executed' = executed + 1 /\ statement'.s = "VariableDeclaration") =>
        LET name == statement'.name
            initial == IF statement'.initializer.e = "null"
                       THEN Value(Null)
                       ELSE evaluateExpression(statement'.initializer, bindings)
        IN  IF ~initial.ok
            THEN /\ outcome'.threw
                 /\ outcome'.error = <<initial>>
                 /\ bindings' = bindings
            ELSE IF name.lexeme \in DOMAIN bindings
            THEN /\ outcome'.threw
                 /\ outcome'.error =
                        <<RuntimeError(name, AlreadyDefinedMessage(name.lexeme))>>
                 /\ bindings' = bindings
            ELSE /\ ~outcome'.threw
                 /\ DOMAIN bindings' = DOMAIN bindings \cup {name.lexeme}
                 /\ bindings'[name.lexeme] = initial.value
                 /\ \A lexeme \in DOMAIN bindings : bindings'[lexeme] = bindings[lexeme]]_vars

\* The declaration of x with the initializer x was refused while x was not
\* bound, and x is still not bound.
DeclaredFromItselfRefused ==
    /\ outcome.threw
    /\ statement.s = "VariableDeclaration"
    /\ statement.initializer.e = "VariableAccess"
    /\ statement.initializer.name.lexeme = statement.name.lexeme
    /\ outcome.error[1].message = NotDefinedMessage(statement.name.lexeme)
    /\ DOMAIN bindings = {}

(***************************************************************************)
(* SpecRun: the driver from YatayCli.run on, called with no argument, one  *)
(* argument (the path of a file that can be read or not) or two.           *)
(***************************************************************************)
ArgumentLists ==
    {<<>>, <<NoFile>>}
    \cup {<<File(content)>> : content \in Sources}
    \cup {<<file, file>> : file \in {NoFile, File(<<>>), File(<<"1", ".">>)}}

\* YatayCli.run with more than one argument: the usage is printed.
Usage ==
    /\ phase = "run"
    /\ Len(commandLineArguments) > 1
    /\ exitStatus' = 64
    /\ phase' = "exited"
    /\ UNCHANGED <<commandLineArguments, scannerVars, tokens, parserVars, interpreterVars,
                   hadError, hadRuntimeError, stderr>>

\* YatayCli.run with no argument: runPrompt prints a notice and returns.
RunPrompt ==
    /\ phase = "run"
    /\ Len(commandLineArguments) = 0
    /\ exitStatus' = 0
    /\ phase' = "exited"
    /\ UNCHANGED <<commandLineArguments, scannerVars, tokens, parserVars, interpreterVars,
                   hadError, hadRuntimeError, stderr>>

\* YatayCli.runFile on a path with no file to read: a notice is printed and
\* runFile returns.
RunNoFile ==
    /\ phase = "run"
    /\ Len(commandLineArguments) = 1
    /\ ~commandLineArguments[1].readable
    /\ exitStatus' = 0
    /\ phase' = "exited"
    /\ UNCHANGED <<commandLineArguments, scannerVars, tokens, parserVars, interpreterVars,
                   hadError, hadRuntimeError, stderr>>

\* YatayCli.runFile on a file: runSourceCode constructs the scanner on its
\* text.
RunFile ==
    /\ phase = "run"
    /\ Len(commandLineArguments) = 1
    /\ commandLineArguments[1].readable
    /\ sourceCode' = commandLineArguments[1].content
    /\ phase' = "scan"
    /\ UNCHANGED <<commandLineArguments, tokenStart, currentIndex, currentLine, tokens,
                   parserVars, interpreterVars, hadError, hadRuntimeError, stderr,
                   exitStatus>>

InitRun ==
    /\ phase = "run"
    /\ commandLineArguments \in ArgumentLists
    /\ sourceCode = <<>>
    /\ tokens = <<>>
    /\ pending = 0
    /\ Constructed

NextRun ==
    \/ Usage
    \/ RunPrompt
    \/ RunNoFile
    \/ RunFile
    \/ ScanToken
    \/ ScanEnd
    \/ ParseDeclaration
    \/ SkipInterpreter
    \/ Interpret
    \/ ExecuteParsed
    \/ InterpretEnd
    \/ Exit

SpecRun == InitRun /\ [][NextRun]_vars

\* The lines of the standard error stream that report a scanning or parsing
\* error, and those that report a runtime error.
StaticReports == {k \in DOMAIN stderr : stderr[k].label \in {"] Error: ", "] Error en "}}
RuntimeReports == {k \in DOMAIN stderr : stderr[k].label = "] "}

\* C15: after running the file given as its only argument the driver has
\* exited with status 65 exactly when a scanning or parsing error was
\* reported, with status 70 exactly when a runtime error was reported, and
\* has returned (status 0) otherwise; given more than one argument it has
\* exited with status 64 and nothing was scanned.
ExitStatusTellsTheError ==
    phase = "exited" =>
        /\ Len(commandLineArguments) > 1 =>
                /\ exitStatus = 64
                /\ tokens = <<>>
                /\ currentIndex = 0
                /\ stderr = <<>>
        /\ (Len(commandLineArguments) = 1 /\ commandLineArguments[1].readable) =>
                /\ sourceCode = commandLineArguments[1].content
                /\ exitStatus = 65 <=> StaticReports # {}
                /\ exitStatus = 70 <=> RuntimeReports # {}
                /\ exitStatus = 0 <=> stderr = <<>>
                /\ exitStatus \in {0, 65, 70}

\* The file was scanned and parsed without error, its second statement threw
\* a runtime error, and the driver exited with status 70.
ExitedAfterRuntimeError ==
    /\ phase = "exited"
    /\ exitStatus = 70
    /\ executed = 2
    /\ Len(commandLineArguments) = 1
    /\ ~hadError

\* The index of the first of the characters at or after index from, or the
\* length of the source when there is none.
FirstOf(characters, from) ==
    IF \E k \in from..(Len(sourceCode) - 1) : sourceCode[k + 1] \in characters
    THEN CHOOSE k \in from..(Len(sourceCode) - 1) :
            /\ sourceCode[k + 1] \in characters
            /\ \A j \in from..(k - 1) : sourceCode[j + 1] \notin characters
    ELSE Len(sourceCode)

\* C16: scanning from an opening quotation mark, when the closing one comes
\* first on the line one String token is added whose literal is the text
\* between the two, and nothing is reported; when a newline or the end of
\* the source comes first, exactly one scanning error is reported, no token
\* is added, and scanning goes on at that newline or end, on the same line.
TextScannedOrCutOff ==
    [][(phase = "scan" /\ ~isAtEnd(currentIndex) /\ sourceCode[currentIndex + 1] = "\"") =>
        LET stop == FirstOf({"\"", "\n"}, currentIndex + 1)
        IN  IF stop < Len(sourceCode) /\ sourceCode[stop + 1] = "\""
            THEN /\ tokens' = Append(tokens,
                                     Token("String",
                                           SubSeq(sourceCode, currentIndex + 1, stop + 1),
                                           Str(SubSeq(sourceCode, currentIndex + 2, stop)),
                                           currentLine))
                 /\ stderr' = stderr
                 /\ hadError' = hadError
                 /\ currentIndex' = stop + 1
                 /\ currentLine' = currentLine
            ELSE /\ tokens' = tokens
                 /\ stderr' = Append(stderr,
                                     announceScanningError(currentLine,
                                                           UnterminatedStringMessage))
                 /\ hadError'
                 /\ currentIndex' = stop
                 /\ currentLine' = currentLine]_vars

\* A text was scanned into a token and the text opened after it was cut off
\* by the end of the source, reported once.
TextScannedThenTextCutOff ==
    /\ phase = "parse"
    /\ currentTokenIndex = 0
    /\ Len(tokens) = 2
    /\ tokens[1].kind = "String"
    /\ tokens[1].literal = Str(<<"x">>)
    /\ sourceCode[Len(sourceCode)] = "\""
    /\ Len(stderr) = 1
    /\ stderr[1].message = UnterminatedStringMessage

(***************************************************************************)
(* SpecScan: scanTokens alone, on sources made of digits, "_" and ",", and *)
(* on sources made of the characters of the operators and newlines.        *)
(***************************************************************************)
NumberAlphabet == {"1", "2", "_", ","}

OperatorAlphabet == {"/", "<", "=", ">", ":", "\n"}

ScanSources ==
    UNION {[1..n -> NumberAlphabet] : n \in 0..(MaxLen + 1)}
    \cup UNION {[1..n -> OperatorAlphabet] : n \in 0..MaxLen}

InitScan ==
    /\ phase = "scan"
    /\ sourceCode \in ScanSources
    /\ tokens = <<>>
    /\ pending = 0
    /\ commandLineArguments = <<File(sourceCode)>>
    /\ Constructed

NextScan ==
    \/ ScanToken
    \/ ScanEnd

SpecScan == InitScan /\ [][NextScan]_vars

\* A lexeme with two consecutive underscores, an underscore next to the
\* decimal separator, or an underscore at its end.
HasMisplacedUnderscore(lexeme) ==
    \/ lexeme[Len(lexeme)] = "_"
    \/ \E k \in 1..(Len(lexeme) - 1) :
            \/ lexeme[k] = "_" /\ lexeme[k + 1] \in {"_", ","}
            \/ lexeme[k] = "," /\ lexeme[k + 1] = "_"

\* The digits of the lexeme read as a decimal numeral, "," being the
\* decimal point.
DigitsOf(lexeme) == SelectSeq(lexeme, LAMBDA character : character \in Digits)

DecimalValue(lexeme) ==
    IF \E k \in DOMAIN lexeme : lexeme[k] = ","
    THEN LET comma == CHOOSE k \in DOMAIN lexeme : lexeme[k] = ","
         IN  Num(FALSE, DigitsValue(DigitsOf(lexeme), 0),
                 Pow10(Len(DigitsOf(SubSeq(lexeme, comma + 1, Len(lexeme))))))
    ELSE Num(FALSE, DigitsValue(DigitsOf(lexeme), 0), 1)

\* The lexeme is a digit, then digits and underscores, then at most once a
\* "," followed by a digit or an underscore and more of them, and the
\* source after it does not go on that way.
IsNumberLexemeUpTo(lexeme, end) ==
    /\ Len(lexeme) > 0
    /\ \A k \in DOMAIN lexeme : lexeme[k] \in Digits \cup {"_", ","}
    /\ Cardinality({k \in DOMAIN lexeme : lexeme[k] = ","}) <= 1
    /\ lexeme[Len(lexeme)] # ","
    /\ end < Len(sourceCode) =>
            /\ sourceCode[end + 1] \notin Digits \cup {"_"}
            /\ sourceCode[end + 1] = "," =>
                    \/ \E k \in DOMAIN lexeme : lexeme[k] = ","
                    \/ end + 1 = Len(sourceCode)
                    \/ sourceCode[end + 2] \notin Digits \cup {"_"}

\* C17: scanning from a digit adds one Number token for the whole number
\* lexeme, and reports a scanning error exactly when the lexeme has two
\* consecutive underscores, an underscore right before or right after the
\* ",", or an underscore at its end; without any of these its literal is the
\* value of its digits with "," as the decimal point.
NumberRefusedIffUnderscoreMisplaced ==
    [][(phase = "scan" /\ ~isAtEnd(currentIndex) /\ sourceCode[currentIndex + 1] \in Digits) =>
        LET lexeme == SubSeq(sourceCode, currentIndex + 1, currentIndex')
        IN  /\ IsNumberLexemeUpTo(lexeme, currentIndex')
            /\ Len(tokens') = Len(tokens) + 1
            /\ tokens'[Len(tokens')].kind = "Number"
            /\ tokens'[Len(tokens')].lexeme = lexeme
            /\ (stderr' # stderr) <=> HasMisplacedUnderscore(lexeme)
            /\ hadError' <=> (hadError \/ HasMisplacedUnderscore(lexeme))
            /\ ~HasMisplacedUnderscore(lexeme) =>
                    tokens'[Len(tokens')].literal = DecimalValue(lexeme)]_vars

\* The number 1_2,2 was scanned without error as 12.2 (61 / 5).
NumberScannedWithSeparators ==
    /\ phase = "parse"
    /\ sourceCode = <<"1", "_", "2", ",", "2">>
    /\ stderr = <<>>
    /\ Len(tokens) = 2
    /\ tokens[1].kind = "Number"
    /\ tokens[1].literal = Num(FALSE, 61, 5)

\* The operators read by longest match, left to right, as pairs of a kind
\* and a lexeme: a pair of characters that is an operator before a single
\* one, "::" up to the character before the next newline giving nothing.
PairKind(first, second) ==
    CASE first = "/" /\ second = "/" -> "DoubleSlash"
      [] first = "=" /\ second = "<" -> "LessOrEqual"
      [] first = "<" /\ second = "=" -> "Assign"
      [] first = ">" /\ second = "<" -> "Unequal"
      [] first = ">" /\ second = "=" -> "GreaterOrEqual"
      [] OTHER -> "None"

SingleKind(character) ==
    CASE character = "/" -> "Slash"
      [] character = "=" -> "Equal"
      [] character = "<" -> "Less"
      [] character = ">" -> "Greater"
      [] character = ":" -> "Colon"

RECURSIVE LongestMatch(_)
LongestMatch(text) ==
    IF text = <<>> THEN <<>>
    ELSE IF text[1] = "\n" THEN LongestMatch(Tail(text))
    ELSE IF Len(text) >= 2 /\ text[1] = ":" /\ text[2] = ":"
    THEN IF \E k \in DOMAIN text : text[k] = "\n"
         THEN LET newline == CHOOSE k \in DOMAIN text :
                                /\ text[k] = "\n"
                                /\ \A j \in 1..(k - 1) : text[j] # "\n"
              IN  LongestMatch(SubSeq(text, newline, Len(text)))
         ELSE <<>>
    ELSE IF Len(text) >= 2 /\ PairKind(text[1], text[2]) # "None"
    THEN <<<<PairKind(text[1], text[2]), <<text[1], text[2]>>>>>>
         \o LongestMatch(SubSeq(text, 3, Len(text)))
    ELSE <<<<SingleKind(text[1]), <<text[1]>>>>>> \o LongestMatch(Tail(text))

PrecedenceKinds == {"Number", "Plus", "Minus", "Asterisk", "Less", "KeywordNo"}

IsExpressionKinds(kinds) ==
    /\ Len(kinds) > 0
    /\ kinds[Len(kinds)] = "Number"
    /\ \A k \in DOMAIN kinds :
            IF k = 1 \/ kinds[k - 1] # "Number"
            THEN kinds[k] \in {"Number"} \cup UnaryOperators
            ELSE kinds[k] \in {"Plus", "Minus", "Asterisk", "Less"}

OperandValues == {<<1, 2, 3>>, <<8, 4, 2>>}

DigitLexeme(value) == <<<<"1", "2", "3", "4", "5", "6", "7", "8", "9">>[value]>>

NumberToken(value, line) == Token("Number", DigitLexeme(value), Num(FALSE, value, 1), line)

ExpressionTokens(kinds, values) ==
    [k \in 1..(Len(kinds) + 2) |->
        IF k = Len(kinds) + 2 THEN TokenOfKind("EndOfFile", k)
        ELSE IF k = Len(kinds) + 1 THEN TokenOfKind("Dot", k)
        ELSE IF kinds[k] = "Number"
        THEN NumberToken(
                values[((Cardinality({j \in 1..k : kinds[j] = "Number"}) - 1) % Len(values)) + 1],
                k)
        ELSE TokenOfKind(kinds[k], k)]

ExpressionTokenLists ==
    {ExpressionTokens(kinds, values) :
        kinds \in {candidate \in UNION {[1..n -> PrecedenceKinds] : n \in 1..(MaxTokens + 1)} :
                        IsExpressionKinds(candidate)},
        values \in OperandValues}

InitPrecedence ==
    /\ phase = "parse"
    /\ sourceCode = <<>>
    /\ tokens \in ExpressionTokenLists
    /\ pending = 0
    /\ commandLineArguments = <<File(sourceCode)>>
    /\ Constructed

NextPrecedence ==
    \/ ParseDeclaration
    \/ Interpret
    \/ ExecuteParsed
    \/ InterpretEnd
    \/ Exit

SpecPrecedence == InitPrecedence /\ [][NextPrecedence]_vars

\* The level of the node at the top of an expression: comparison, term,
\* factor, unary, and above them the operands.
LevelOf(expression) ==
    CASE expression.e = "Binary" /\ expression.operator.kind = "Less" -> 1
      [] expression.e = "Binary" /\ expression.operator.kind \in {"Plus", "Minus"} -> 2
      [] expression.e = "Binary" /\ expression.operator.kind = "Asterisk" -> 3
      [] expression.e = "Unary" -> 4
      [] OTHER -> 5

\* The tokens of an expression without parentheses, from left to right;
\* a number token is told by its literal.
RECURSIVE Flatten(_)
Flatten(expression) ==
    CASE expression.e = "Binary" ->
            Flatten(expression.leftOperand) \o <<expression.operator>>
            \o Flatten(expression.rightOperand)
      [] expression.e = "Unary" -> <<expression.operator>> \o Flatten(expression.operand)
      [] OTHER -> <<expression>>

\* Left-associative and by precedence: the right operand of a binary
\* operator is of a higher level than the operator, the left one of the
\* same level or higher, and the operand of a unary operator is a unary
\* expression or an operand.
RECURSIVE NestedByPrecedence(_)
NestedByPrecedence(expression) ==
    CASE expression.e = "Binary" ->
            /\ LevelOf(expression.leftOperand) >= LevelOf(expression)
            /\ LevelOf(expression.rightOperand) > LevelOf(expression)
            /\ NestedByPrecedence(expression.leftOperand)
            /\ NestedByPrecedence(expression.rightOperand)
      [] expression.e = "Unary" ->
            /\ LevelOf(expression.operand) >= 4
            /\ NestedByPrecedence(expression.operand)
      [] OTHER -> TRUE

LexemesOfExpression == [k \in 1..(Len(tokens) - 2) |-> tokens[k].lexeme[1]]

\* C19: an expression without parentheses is parsed without error into the
\* one tree over its tokens, in their order, that is left-associative and
\* nested by the levels comparison < term < factor < unary; 1 + 2 * 3 then
\* evaluates to 7 and 8 - 4 - 2 to 2.
ParsedLeftAssociativeByPrecedence ==
    /\ ~hadError
    /\ Len(statements) <= 1
    /\ phase # "parse" => Len(statements) = 1
    /\ Len(statements) = 1 =>
            /\ statements[1].s = "Expression"
            /\ Flatten(statements[1].expression) =
                    [k \in 1..(Len(tokens) - 2) |->
                        IF tokens[k].kind = "Number"
                        THEN LiteralExpression(tokens[k].literal) ELSE tokens[k]]
            /\ NestedByPrecedence(statements[1].expression)
    /\ (executed = 1 /\ LexemesOfExpression = <<"1", "+", "2", "*", "3">>) =>
            ~outcome.threw /\ outcome.value = Num(FALSE, 7, 1)
    /\ (executed = 1 /\ LexemesOfExpression = <<"8", "-", "4", "-", "2">>) =>
            ~outcome.threw /\ outcome.value = Num(FALSE, 2, 1)

\* 8 - 4 - 2 was parsed as (8 - 4) - 2 and evaluated.
SubtractionsNestedToTheLeft ==
    /\ executed = 1
    /\ LexemesOfExpression = <<"8", "-", "4", "-", "2">>
    /\ statements[1].expression.leftOperand.e = "Binary"
    /\ statements[1].expression.rightOperand = LiteralExpression(Num(FALSE, 2, 1))
    /\ ~outcome.threw

(***************************************************************************)
(* SpecDeclare: the driver from the construction of the parser on, run on  *)
(* token lists made of declarations of x, accesses of x, literals and the  *)
(* operator no.                                                            *)
(***************************************************************************)
DeclareKinds == {"KeywordDefinir", "Identifier", "Dot", "KeywordNo", "KeywordVerdadero"}

DeclareTokenLists ==
    {[k \in 1..Len(kinds) + 1 |->
        IF k <= Len(kinds) THEN TokenOfKind(kinds[k], k) ELSE TokenOfKind("EndOfFile", k)] :
     kinds \in UNION {[1..n -> DeclareKinds] : n \in 0..(MaxTokens + 1)}}

InitDeclare ==
    /\ phase = "parse"
    /\ sourceCode = <<>>
    /\ tokens \in DeclareTokenLists
    /\ pending = 0
    /\ commandLineArguments = <<File(sourceCode)>>
    /\ Constructed

SpecDeclare == InitDeclare /\ [][NextParse]_vars

\* An expression statement has just been executed and a trace line logged.
LoggedExpressionStatement ==
    /\ executed > 0
    /\ statement.s = "Expression"
    /\ ~outcome.threw
    /\ Len(outcome.logged) = 1

RECURSIVE Ungrouped(_)
Ungrouped(expression) ==
    IF expression.e = "Grouping" THEN Ungrouped(expression.innerExpression) ELSE expression

\* C20 as stated: no expression statement of a program that parsed without
\* error evaluates to the absent value, and no trace line shows it.
NoExpressionStatementEvaluatesToNull ==
    (~hadError /\ LoggedExpressionStatement) =>
        /\ outcome.value # Null
        /\ outcome.logged[1].value # stringify(Null)

\* C20: an expression statement of a program that parsed without error
\* evaluates to the absent value only when its expression, parentheses
\* aside, is the access of a variable bound to the absent value; the trace
\* line then shows it as the quoted text null.
OnlyAccessEvaluatesToNull ==
    (~hadError /\ LoggedExpressionStatement) =>
        /\ outcome.logged[1].value = stringify(outcome.value)
        /\ outcome.value = Null =>
                /\ Ungrouped(statement.expression).e = "VariableAccess"
                /\ Ungrouped(statement.expression).name.lexeme \in DOMAIN bindings
                /\ bindings[Ungrouped(statement.expression).name.lexeme] = Null
                /\ outcome.logged[1].value.text = <<"\"", "n", "u", "l", "l", "\"">>

\* definir x. x. was parsed without error and its second statement
\* evaluated to the absent value.
DeclaredWithoutInitializerThenAccessed ==
    /\ ~hadError
    /\ [k \in 1..(Len(tokens) - 1) |-> tokens[k].kind] =
            <<"KeywordDefinir", "Identifier", "Dot", "Identifier", "Dot">>
    /\ LoggedExpressionStatement
    /\ executed = 2
    /\ outcome.value = Null

(***************************************************************************)
(* SpecLexemes: scanTokens alone, on sources of at most MaxLen characters  *)
(* among a digit, an underscore, a character of no token, a quotation mark *)
(* and a newline, as they are or after a number beyond                     *)
(* Number.MAX_SAFE_INTEGER.                                                *)
(***************************************************************************)
BigNumber == <<"9","0","0","7","1","9","9","2","5","4","7","4","0","9","9","3">>

LexemeCharacters == {"1", "_", "?", "\"", "\n"}

LexemeSources ==
    {start \o rest :
        start \in {<<>>, BigNumber},
        rest \in UNION {[1..n -> LexemeCharacters] : n \in 0..MaxLen}}

InitLexemes ==
    /\ phase = "scan"
    /\ sourceCode \in LexemeSources
    /\ tokens = <<>>
    /\ pending = 0
    /\ commandLineArguments = <<File(sourceCode)>>
    /\ Constructed

SpecLexemes == InitLexemes /\ [][NextScan]_vars

\* C21 as stated: a call of scanToken that reports a scanning error adds no
\* token.
ErrorAddsNoToken ==
    [][(phase = "scan" /\ stderr' # stderr) => tokens' = tokens]_vars

\* C21: a call of scanToken that reports a scanning error adds no token
\* when the lexeme starts with a character of no token or is an unterminated
\* text, and adds the Number token all the same when the lexeme is a number:
\* one with misplaced underscores or one beyond the safe integers.
ErrorAddsNoTokenButNumber ==
    [][(phase = "scan" /\ stderr' # stderr) =>
        IF sourceCode[currentIndex + 1] \in Digits
        THEN /\ Len(tokens') = Len(tokens) + 1
             /\ SubSeq(tokens', 1, Len(tokens)) = tokens
             /\ tokens'[Len(tokens')].kind = "Number"
             /\ tokens'[Len(tokens')].lexeme = SubSeq(sourceCode, currentIndex + 1, currentIndex')
        ELSE tokens' = tokens]_vars

\* The number beyond the safe integers, with an underscore at its end, was
\* reported twice and is in the list returned.
RefusedNumberKeptAsToken ==
    /\ phase = "parse"
    /\ sourceCode = BigNumber \o <<"_">>
    /\ Len(stderr) = 2
    /\ Len(tokens) = 2
    /\ tokens[1].kind = "Number"
    /\ tokens[1].lexeme = sourceCode

\* An operand whose evaluation throws: the access of an identifier with no
\* binding.
IsUnbound(operand) ==
    /\ operand.e = "VariableAccess"
    /\ operand.name.lexeme \notin DOMAIN bindings

\* C22: the runtime error of a binary expression is the one of its left
\* operand when that operand throws, whatever the right operand is; else the
\* one of its right operand when that one throws, whatever the type of the
\* left operand; and an error about the operands of the operator is thrown
\* only when both were evaluated.
LeftThenRightThenOperator ==
    (executed > 0 /\ Evaluated.e = "Binary") =>
        /\ IsUnbound(Evaluated.leftOperand) =>
                /\ outcome.threw
                /\ outcome.error[1].token = Evaluated.leftOperand.name
                /\ outcome.error[1].message = NotDefinedMessage(Evaluated.leftOperand.name.lexeme)
        /\ (~IsUnbound(Evaluated.leftOperand) /\ IsUnbound(Evaluated.rightOperand)) =>
                /\ outcome.threw
                /\ outcome.error[1].token = Evaluated.rightOperand.name
                /\ outcome.error[1].message = NotDefinedMessage(Evaluated.rightOperand.name.lexeme)
        /\ (outcome.threw /\ outcome.error[1].token = Evaluated.operator) =>
                /\ EvaluatedLeft.ok
                /\ EvaluatedRight.ok

\* A text compared with an identifier that has no binding: the error is the
\* one of the identifier, not the one of the operator.
TextLessThanUnboundThrewNotDefined ==
    /\ executed > 0
    /\ statement.s = "Expression"
    /\ Evaluated.e = "Binary"
    /\ Evaluated.operator.kind = "Less"
    /\ Evaluated.leftOperand = LiteralExpression(Str(<<"1">>))
    /\ IsUnbound(Evaluated.rightOperand)
    /\ outcome.threw
    /\ outcome.error[1].token = Evaluated.rightOperand.name

\* C23: one call of scanToken consumes the characters from tokenStart up to
\* the new currentIndex, at least one, and adds at most one token; a token
\* added has these characters as its lexeme and lies on the line of its
\* first character (1 plus the newlines before it); when no token is added
\* the characters are one whitespace, a comment, or were reported.
TokenIsSourceRangeOnItsLine ==
    [][(phase = "scan" /\ ~isAtEnd(currentIndex)) =>
        LET consumed == SubSeq(sourceCode, currentIndex + 1, currentIndex')
        IN  /\ tokenStart' = currentIndex
            /\ currentIndex' > currentIndex
            /\ currentIndex' <= Len(sourceCode)
            /\ \/ /\ Len(tokens') = Len(tokens) + 1
                  /\ SubSeq(tokens', 1, Len(tokens)) = tokens
                  /\ tokens'[Len(tokens')].kind # "EndOfFile"
                  /\ tokens'[Len(tokens')].lexeme = consumed
                  /\ tokens'[Len(tokens')].line =
                        1 + NewlinesOf(SubSeq(sourceCode, 1, currentIndex))
                  /\ tokens'[Len(tokens')].line = currentLine'
               \/ /\ tokens' = tokens
                  /\ \/ consumed \in {<<" ">>, <<"\r">>, <<"\t">>, <<"\n">>}
                     \/ /\ Len(consumed) >= 2
                        /\ consumed[1] = ":"
                        /\ consumed[2] = ":"
                        /\ \A k \in DOMAIN consumed : consumed[k] # "\n"
                     \/ stderr' # stderr]_vars

\* The source x, newline, 1 was scanned: the identifier on line 1 and the
\* number on line 2.
TokensOnTwoLinesScanned ==
    /\ phase = "parse"
    /\ sourceCode = <<"x", "\n", "1">>
    /\ Len(tokens) = 3
    /\ tokens[1].lexeme = <<"x">>
    /\ tokens[1].line = 1
    /\ tokens[2].lexeme = <<"1">>
    /\ tokens[2].line = 2

\* C24: the statements are executed in the order of the program, none
\* after one that threw; executing a statement logs one line, for its
\* expression, when it is an expression statement that did not throw, and
\* nothing otherwise; no other step logs; a run without error executed
\* every statement.
OneTraceLinePerExpressionStatement ==
    [][/\ executed' # executed =>
            /\ executed' = executed + 1
            /\ ~outcome.threw
            /\ statement' = statements[executed']
            /\ traceLines' = traceLines +
                    (IF statement'.s = "Expression" /\ ~outcome'.threw THEN 1 ELSE 0)
            /\ Len(outcome'.logged) = traceLines' - traceLines
            /\ outcome'.logged # <<>> =>
                    /\ outcome'.logged[1].expression = statement'.expression
                    /\ outcome'.logged[1].value = stringify(outcome'.value)
       /\ executed' = executed => traceLines' = traceLines
       /\ (phase' = "exited" /\ ~hadError' /\ ~hadRuntimeError') =>
            executed' = Len(statements')]_vars

\* verdadero. x. has run: the first statement logged a line, the second
\* threw and logged none.
LoggedThenThrew ==
    /\ phase = "exited"
    /\ Len(statements) = 2
    /\ executed = 2
    /\ statements[1].expression = LiteralExpression(Bool(TRUE))
    /\ outcome.threw
    /\ traceLines = 1

(***************************************************************************)
(* SpecSessions: interpret called again and again on one interpreter, on   *)
(* lists of statements that hold at most MaxStatements + 1 statements in   *)
(* all: declarations of x and y without initializer, from a literal and    *)
(* from the other identifier, their accesses, and the negation of a        *)
(* boolean, which throws.                                                  *)
(***************************************************************************)
SessionExpressions ==
    {LiteralExpression(Num(FALSE, 1, 1)), LiteralExpression(Bool(TRUE))}
    \cup {VariableAccessExpression(name) : name \in EnvironmentIdentifiers}

SessionStatements ==
    {VariableDeclarationStatement(name, initializer) :
        name \in EnvironmentIdentifiers, initializer \in SessionExpressions \cup {NoExpression}}
    \cup {ExpressionStatement(VariableAccessExpression(name)) : name \in EnvironmentIdentifiers}
    \cup {ExpressionStatement(UnaryExpression(TokenOfKind("Minus", 1),
                                              LiteralExpression(Bool(TRUE))))}

\* The loop of interpret on a list given by the caller of a session.
ExecuteSession == \E stmt \in SessionStatements : ExecuteStatement(stmt)

\* A caller that would construct a new environment for each call.
InterpretAgainOnFreshEnvironment ==
    /\ phase = "ran"
    /\ executed <= MaxStatements
    /\ phase' = "interpret"
    /\ pending' \in 1..(MaxStatements + 1 - executed)
    /\ outcome' = NoOutcome
    /\ returnedCalls' = returnedCalls + 1
    /\ bindings' = <<>>
    /\ UNCHANGED <<commandLineArguments, calls, scannerVars, tokens, parserVars, statement,
                   executed, traceLines, hadError, hadRuntimeError, stderr,
                   exitStatus>>

\* YatayInterpreter.interpret called once more, after it returned (its loop
\* ended or its catch clause ran): the environment is the field of the
\* interpreter, as the earlier calls left it.
InterpretAgain ==
    /\ phase = "ran"
    /\ executed <= MaxStatements
    /\ phase' = "interpret"
    /\ pending' \in 1..(MaxStatements + 1 - executed)
    /\ outcome' = NoOutcome
    /\ returnedCalls' = returnedCalls + 1
    /\ UNCHANGED <<commandLineArguments, calls, scannerVars, tokens, parserVars, statement,
                   executed, bindings, traceLines, hadError, hadRuntimeError, stderr,
                   exitStatus>>

NextSessions ==
    \/ ExecuteSession
    \/ InterpretEnd
    \/ InterpretAgain
    \/ Exit

SpecSessions == InitInterpret /\ [][NextSessions]_vars

\* C25: a call of interpret starts with the bindings the earlier calls
\* left, also when the call before it was aborted; a binding is never
\* removed nor changed; and a declaration of an identifier that is bound
\* throws, with the error of the identifier already defined when its
\* initializer is absent or a literal.
BindingsOutliveInterpretCalls ==
    [][/\ returnedCalls' # returnedCalls => bindings' = bindings
       /\ \A lexeme \in DOMAIN bindings :
            /\ lexeme \in DOMAIN bindings'
            /\ bindings'[lexeme] = bindings[lexeme]
       /\ (/\ executed' # executed
           /\ statement'.s = "VariableDeclaration"
           /\ statement'.name.lexeme \in DOMAIN bindings) =>
                /\ outcome'.threw
                /\ statement'.initializer.e \in {"null", "Literal"} =>
                        /\ outcome'.error[1].token = statement'.name
                        /\ outcome'.error[1].message =
                                AlreadyDefinedMessage(statement'.name.lexeme)]_vars

\* The first statement of the second call declared an identifier that the
\* first call had declared, and threw.
RedeclaredInLaterCall ==
    /\ returnedCalls = 1
    /\ executed = 2
    /\ statement.s = "VariableDeclaration"
    /\ outcome.threw
    /\ outcome.error[1].message = AlreadyDefinedMessage(statement.name.lexeme)
    /\ statement.name.lexeme \in DOMAIN bindings

(***************************************************************************)
(* SpecArithmetic: interpret called on statements a // b and a / b, where  *)
(* a and b are 0, 1, 2, 3 or 2,5, as they are or negated.                  *)
(***************************************************************************)
ArithmeticLiterals ==
    {LiteralExpression(Num(FALSE, n, 1)) : n \in 0..3}
    \cup {LiteralExpression(Num(FALSE, 5, 2))}

ArithmeticOperands ==
    ArithmeticLiterals
    \cup {UnaryExpression(TokenOfKind("Minus", 1), literal) : literal \in ArithmeticLiterals}

ArithmeticStatements ==
    {ExpressionStatement(BinaryExpression(leftOperand, TokenOfKind(kind, 2), rightOperand)) :
        leftOperand \in ArithmeticOperands, kind \in {"Slash", "DoubleSlash"},
        rightOperand \in ArithmeticOperands}

ExecuteArithmetic == \E stmt \in ArithmeticStatements : ExecuteStatement(stmt)

NextArithmetic ==
    \/ ExecuteArithmetic
    \/ InterpretEnd
    \/ Exit

SpecArithmetic == InitInterpret /\ [][NextArithmetic]_vars

\* The number an operand stands for: its sign, and its magnitude as a
\* fraction.
Written(operand) ==
    IF operand.e = "Unary"
    THEN [neg |-> TRUE, n |-> operand.operand.value.n, d |-> operand.operand.value.d]
    ELSE [neg |-> FALSE, n |-> operand.value.n, d |-> operand.value.d]

\* C26: a // b on numbers never throws; with b zero it is NaN; otherwise
\* it is a - b * q, where q is the quotient a / b truncated to an integer:
\* smaller than b in magnitude, with the sign of a.  a / b throws the
\* divisor error when b is zero.
DoubleSlashIsRemainder ==
    (executed > 0 /\ Evaluated.e = "Binary") =>
        LET a == Written(Evaluated.leftOperand)
            b == Written(Evaluated.rightOperand)
            truncated == (a.n * b.d) \div (a.d * b.n)
        IN  IF Evaluated.operator.kind = "DoubleSlash"
            THEN /\ ~outcome.threw
                 /\ IF b.n = 0 THEN outcome.value = NaN
                    ELSE /\ outcome.value.t = "number"
                         /\ outcome.value.c = "finite"
                         /\ outcome.value.neg = a.neg
                         /\ outcome.value.n * (a.d * b.d) =
                                outcome.value.d * (a.n * b.d - truncated * b.n * a.d)
                         /\ outcome.value.n * b.d < b.n * outcome.value.d
            ELSE b.n = 0 =>
                    /\ outcome.threw
                    /\ outcome.error[1].message = DivisorMessage

\* -3 // 2 was evaluated as -1.
NegativeRemainderOfNegativeDividend ==
    /\ executed > 0
    /\ Evaluated.e = "Binary"
    /\ Evaluated.operator.kind = "DoubleSlash"
    /\ Written(Evaluated.leftOperand) = [neg |-> TRUE, n |-> 3, d |-> 1]
    /\ Written(Evaluated.rightOperand) = [neg |-> FALSE, n |-> 2, d |-> 1]
    /\ outcome.value = Num(TRUE, 1, 1)

\* C27: the index of the parser never decreases and never passes the End
\* Of File token; each call of parseDeclaration starts where the one before
\* ended and ends at least one token further, the token of its parse error,
\* if any, lying between the two; the first advance of synchronize, which
\* reads the previous token, leaves an index above 0; so parse makes at
\* most as many calls as there are tokens before the End Of File token.
ParseConsumesUpToEndOfFile ==
    [][phase = "parse" =>
        /\ currentTokenIndex' >= currentTokenIndex
        /\ currentTokenIndex' <= Len(tokens) - 1
        /\ tokens' = tokens
        /\ Len(declarations') <= currentTokenIndex'
        /\ declarations' # declarations =>
                LET call == declarations'[Len(declarations')]
                IN  /\ Len(declarations') = Len(declarations) + 1
                    /\ call.start = currentTokenIndex
                    /\ call.end = currentTokenIndex'
                    /\ call.end > call.start
                    /\ call.start <= call.thrownAt
                    /\ call.thrownAt <= call.end
                    /\ ~call.ok => advance(call.thrownAt) > 0
                    /\ ~call.ok => call.end >= advance(call.thrownAt)]_vars

\* parse has returned after a parse error at the End Of File token: the
\* call consumed the tokens before it and synchronize could not advance.
ThrewAtEndOfFileAndReturned ==
    /\ phase # "parse"
    /\ Len(declarations) = 1
    /\ ~declarations[1].ok
    /\ declarations[1].start = 0
    /\ declarations[1].thrownAt = Len(tokens) - 1
    /\ declarations[1].end = Len(tokens) - 1
    /\ Len(tokens) > 2

\* C28: while scanTokens runs, 0 <= tokenStart <= currentIndex <= length of
\* the source; each iteration of its loop starts the token at currentIndex
\* and leaves currentIndex further; at the end of the source the loop ends,
\* with currentIndex where it is.
ScannerStaysInsideSource ==
    [][phase = "scan" =>
        /\ 0 <= tokenStart'
        /\ tokenStart' <= currentIndex'
        /\ currentIndex' <= Len(sourceCode)
        /\ sourceCode' = sourceCode
        /\ IF currentIndex < Len(sourceCode)
           THEN /\ phase' = "scan"
                /\ tokenStart' = currentIndex
                /\ currentIndex' > currentIndex
           ELSE /\ phase' = "parse"
                /\ currentIndex' = currentIndex
                /\ tokenStart' = tokenStart]_vars

\* scanTokens has returned on a source that ends inside a comment.
ScannedToEndInsideComment ==
    /\ phase = "parse"
    /\ currentTokenIndex = 0
    /\ sourceCode = <<"x", ":", ":", "1">>
    /\ tokenStart = 1
    /\ currentIndex = 4
    /\ Len(tokens) = 2

\* C29: in a run of the driver the two error flags are never both set and
\* a flag that is set stays set; the status of the exit is then the same
\* when the runtime-error flag is tested before the static-error flag.
FlagsExclusiveAndMonotonic ==
    [][/\ ~(hadError /\ hadRuntimeError)
       /\ ~(hadError' /\ hadRuntimeError')
       /\ hadError => hadError'
       /\ hadRuntimeError => hadRuntimeError'
       /\ (phase = "ran" /\ phase' = "exited") =>
            exitStatus' = IF hadRuntimeError THEN 70 ELSE IF hadError THEN 65 ELSE 0]_vars

\* interpret has returned after a runtime error and the driver has not
\* exited yet: the runtime-error flag alone is set.
RuntimeErrorFlaggedAlone ==
    /\ phase = "ran"
    /\ hadRuntimeError
    /\ ~hadError
    /\ outcome.threw
    /\ Len(stderr) = 1

\* C30: a binding is never removed nor given another value; a declaration
\* that does not throw binds its identifier, which was not bound, to the
\* value it computed, and nothing else changes the bindings; the access of
\* an identifier evaluates to the value bound.
BoundValueNeverChanges ==
    [][/\ \A lexeme \in DOMAIN bindings :
            /\ lexeme \in DOMAIN bindings'
            /\ bindings'[lexeme] = bindings[lexeme]
       /\ IF executed' # executed /\ statement'.s = "VariableDeclaration" /\ ~outcome'.threw
          THEN /\ statement'.name.lexeme \notin DOMAIN bindings
               /\ DOMAIN bindings' = DOMAIN bindings \cup {statement'.name.lexeme}
               /\ bindings'[statement'.name.lexeme] = outcome'.value
          ELSE bindings' = bindings
       /\ (/\ executed' # executed
           /\ statement'.s = "Expression"
           /\ statement'.expression.e = "VariableAccess"
           /\ ~outcome'.threw) =>
                /\ statement'.expression.name.lexeme \in DOMAIN bindings
                /\ outcome'.value = bindings[statement'.expression.name.lexeme]]_vars

\* The identifier declared by the first statement was read by the second.
DeclaredThenRead ==
    /\ executed = 2
    /\ statement.s = "Expression"
    /\ statement.expression.e = "VariableAccess"
    /\ ~outcome.threw
    /\ outcome.value = Num(FALSE, 1, 1)
    /\ bindings[statement.expression.name.lexeme] = Num(FALSE, 1, 1)

====
